---- MODULE Spec2Model ----
(***************************************************************************)
(* A model of the utility-splitter ledger.                                 *)
(*                                                                         *)
(* Money.  The program computes with IEEE doubles.  The model computes    *)
(* with exact integers in units of 1/Cent of 0.01, chosen so that every    *)
(* division the split calculator performs on the modelled inputs is exact: *)
(* the model is the real-number arithmetic the doubles approximate (their  *)
(* error, around 1e-13, is far below the 0.01 tolerance of the program).   *)
(*                                                                         *)
(* The module holds several state machines, one per part of the program:   *)
(*   SpecSettle  Dashboard.tsx: the settlement plan and its recording      *)
(*   SpecFetch   GoogleSheetsService.fetch                                 *)
(*   SpecForm    BillEntry.tsx: the entry form and addBill                  *)
(*   SpecSheet   store/useStore.tsx: the sheet-backed store                *)
(*   Spec        the local encrypted store (useStore of DefaultService.ts) *)
(*   SpecCrypto  CryptoService (LoginScreen.tsx): encrypt and decrypt      *)
(*   SpecServer  unnamed/part_002: the key-value server                    *)
(*   SpecScript  gAppScripts/AutomatedBillProcessor.gs                     *)
(*   SpecPin     unnamed/part_004: the PIN unlock flow of LoginScreen      *)
(* Each specification leaves the variables of the others at their idle     *)
(* values.                                                                 *)
(***************************************************************************)
EXTENDS Integers, Sequences, FiniteSets, TLC

VARIABLES
    \* ---- SpecSettle (Dashboard.tsx)
    sBalances,      \* globalBalances: housemate id -> net amount
    sOrder,         \* key order of the balances object (Object.entries)
    sStart,         \* the balances the plan was computed from
    sDebtors,       \* debtors, sorted, with their remaining amounts
    sCreditors,     \* creditors, sorted, with their remaining amounts
    sI, sJ,         \* the loop indices i and j (1-based here)
    sPlan,          \* transactions: the settlement plan built so far
    sIdx,           \* how many transactions of the plan have been recorded
    sPc             \* "view" | "loop" | "settling" | "done" | "idle"

settleVars == <<sBalances, sOrder, sStart, sDebtors, sCreditors, sI, sJ, sPlan, sIdx, sPc>>

VARIABLES
    \* ---- SpecFetch (GoogleSheetsService.ts)
    accessToken,        \* GoogleSheetsService.accessToken: "none" or a token
    serviceAccountKey,  \* TRUE when a service-account key is held
    tokenExpiration,    \* "null" | "fresh" | "near" (Date.now() > exp - 60000)
    fPc,                \* position of the fetch call in flight
    fSends,             \* times this call has sent the original request
    fRefreshes,         \* credential refreshes this call made after a 401
    fRefreshed,         \* TRUE when such a refresh succeeded
    fFirst,             \* the first response of this call
    fHadKey,            \* serviceAccountKey when the 401 was handled
    fLast,              \* the last response this call received
    fResult,            \* "none" | "value" | "error"
    fCalls              \* calls made so far

fetchVars == <<accessToken, serviceAccountKey, tokenExpiration, fPc, fSends,
               fRefreshes, fRefreshed, fFirst, fHadKey, fLast, fResult, fCalls>>

VARIABLES
    \* ---- SpecForm (BillEntry.tsx, with the store state it reads and writes)
    title,          \* TRUE when the title field is not empty
    amount,         \* the amount field: <<>> when empty, <<n>> for a number
    payerId,        \* "" until the first effect sets it
    splitMethod,    \* "equal" | "percentage" | "shares"
    splits,         \* sequence of [housemateId, amount, share]
    categoryId,     \* "" until the first effect sets it
    housemates,     \* the roster, a sequence of housemate ids
    bills,          \* the bills recorded so far, oldest first
    balances,       \* the store's balances map
    submitted,      \* what the last handleSubmit did: "none" | "sent" | "refused"
    edits           \* edits of the form so far

formVars == <<title, amount, payerId, splitMethod, splits, categoryId,
              housemates, bills, balances, submitted, edits>>

VARIABLES
    \* ---- Spec (client/services/DefaultService.ts: the local encrypted store)
    data,             \* [meta, currentYear, currentBills]
    isLoading,        \* the React state flags of useStore
    isLocked,
    isError,
    isSetupRequired,
    encryptionKey,    \* Null or a password
    tenantId,         \* Null or a tenant id
    isLoaded,         \* isLoaded.current
    initPending,      \* <<>>, or the password and tenant initStore read at its start
    localStorage,     \* [password, tenant, kv]: the browser's localStorage
    db,               \* the key-value server: tenant -> key -> stored value
    hasApiCreds,      \* HAS_API_CREDS, fixed by the build
    serverUp,         \* FALSE while calls to the server fail
    pending,          \* continuations in flight (loadYear, addBill's then)
    nextId,           \* the next fresh bill id
    calls,            \* operations called so far
    lastCall          \* <<>>, or what the call just made was and returned

storeVars == <<data, isLoading, isLocked, isError, isSetupRequired, encryptionKey,
               tenantId, isLoaded, initPending, localStorage, db, hasApiCreds,
               serverUp, pending, nextId, calls, lastCall>>

VARIABLES
    \* ---- SpecSheet (store/useStore.tsx: the sheet-backed store)
    sheetData,        \* data: [meta, currentYear, currentBills]
    spreadsheetId,    \* Null or the id of the spreadsheet
    loggedIn,         \* TRUE when an access token is held
    sheetLoading,     \* isLoading
    isSyncing,
    sheetError,       \* isError
    sheets,           \* the spreadsheet: sheet name -> rows
    loads,            \* loadData calls in flight, with what they fetched
    started,          \* loadData calls started so far
    shown,            \* the number of the load whose result was applied last
    newest            \* the highest number among the loads that completed

sheetVars == <<sheetData, spreadsheetId, loggedIn, sheetLoading, isSyncing,
               sheetError, sheets, loads, started, shown, newest>>

VARIABLES
    \* ---- SpecCrypto (CryptoService of LoginScreen.tsx)
    cData,            \* the string handed to encrypt, as UTF-16 code units
    cPassword,        \* the password handed to encrypt
    cSealed,          \* the AES-GCM encryptions made: key, iv, plaintext, output
    cOriginal,        \* the package encrypt returned, parsed
    cPackage,         \* what is handed to decrypt
    cResult,          \* what decrypt returned or threw, and under which password
    cInner,           \* the errors decrypt's catch block has caught
    cStep             \* "idle" | "start" | "encrypted" | "changed" | "decrypted"

cryptoVars == <<cData, cPassword, cSealed, cOriginal, cPackage, cResult, cInner, cStep>>

VARIABLES
    \* ---- SpecServer (unnamed/part_002: the key-value server)
    kvFiles,          \* the files under DATA_DIR: path -> content
    kvPuts,           \* the PUT requests the handler has written for, oldest first
    kvReq,            \* the request handled last
    kvRes,            \* the response to it: [status, body]
    kvTouched,        \* the paths the handling of it tested, read or wrote
    kvCount           \* requests handled so far

serverVars == <<kvFiles, kvPuts, kvReq, kvRes, kvTouched, kvCount>>

VARIABLES
    \* ---- SpecScript (gAppScripts/AutomatedBillProcessor.gs)
    bpExpected,       \* expectedVendors: the vendor columns of BillSplits
    bpFixed,          \* the vendors FixedBills defines an amount for
    bpNow,            \* the month new Date() is in, as an index of Months
    bpThreads,        \* the Gmail threads labelled Bills-Pending
    bpManual,         \* the rows of ManualBills
    bpOverride,       \* the rows of BillOverride
    bpLog,            \* the rows of BillHistories
    bpStatus,         \* the rows of BillStatus: [month, status, received, missing]
    bpPaid,           \* the rows of PaidBills
    bpMails,          \* the summary e-mails sent
    bpDone,           \* the consolidations made: month, and what was absent then
    bpRuns            \* runs of processMonthlyBills so far

scriptVars == <<bpExpected, bpFixed, bpNow, bpThreads, bpManual, bpOverride, bpLog,
                bpStatus, bpPaid, bpMails, bpDone, bpRuns>>

VARIABLES
    \* ---- SpecPin (LoginScreen of unnamed/part_004: the PIN unlock flow)
    authStep,         \* "oauth" | "pin_entry" | "loading"
    pinError,         \* error: Null or the message shown
    encryptedKey,     \* the state encryptedKey: Null or the stored JWE
    storedKey,        \* localStorage service_account_key: Null or a JWE
    enteredPin,       \* the PIN of the unlock in flight
    unlockPc,         \* "unmounted" | "idle" | "decrypting" | "exchanging" | "in"
    loginSuccesses,   \* the calls of onLoginSuccess made, with the PIN of each
    unlocks           \* PINs submitted so far

pinVars == <<authStep, pinError, encryptedKey, storedKey, enteredPin, unlockPc,
             loginSuccesses, unlocks>>

vars == <<settleVars, fetchVars, formVars, storeVars, sheetVars, cryptoVars, serverVars, scriptVars, pinVars>>

\* the variables each part leaves alone
notSettle == <<fetchVars, formVars, storeVars, sheetVars, cryptoVars, serverVars, scriptVars, pinVars>>
notFetch == <<settleVars, formVars, storeVars, sheetVars, cryptoVars, serverVars, scriptVars, pinVars>>
notForm == <<settleVars, fetchVars, storeVars, sheetVars, cryptoVars, serverVars, scriptVars, pinVars>>
notStore == <<settleVars, fetchVars, formVars, sheetVars, cryptoVars, serverVars, scriptVars, pinVars>>
notSheet == <<settleVars, fetchVars, formVars, storeVars, cryptoVars, serverVars, scriptVars, pinVars>>
notCrypto == <<settleVars, fetchVars, formVars, storeVars, sheetVars, serverVars, scriptVars, pinVars>>
notServer == <<settleVars, fetchVars, formVars, storeVars, sheetVars, cryptoVars, scriptVars, pinVars>>
notScript == <<settleVars, fetchVars, formVars, storeVars, sheetVars, cryptoVars, serverVars, pinVars>>
\* the PIN unlock flow logs in through GoogleSheetsService
notPin == <<settleVars, formVars, storeVars, sheetVars, cryptoVars, serverVars, scriptVars>>

(***************************************************************************)
(* The idle values of each part's variables                                *)
(***************************************************************************)
NoResponse == [status |-> 0, json |-> FALSE]

SettleIdle ==
    /\ sBalances = <<>> /\ sOrder = <<>> /\ sStart = <<>>
    /\ sDebtors = <<>> /\ sCreditors = <<>> /\ sI = 0 /\ sJ = 0
    /\ sPlan = <<>> /\ sIdx = 0 /\ sPc = "idle"

FetchIdle ==
    /\ accessToken = "none" /\ serviceAccountKey = FALSE /\ tokenExpiration = "null"
    /\ fPc = "idle" /\ fSends = 0 /\ fRefreshes = 0 /\ fRefreshed = FALSE
    /\ fFirst = NoResponse
    /\ fHadKey = FALSE /\ fLast = NoResponse /\ fResult = "none" /\ fCalls = 0

FormIdle ==
    /\ title = FALSE /\ amount = <<>> /\ payerId = "" /\ splitMethod = "idle"
    /\ splits = <<>> /\ categoryId = "" /\ housemates = <<>> /\ bills = <<>>
    /\ balances = <<>> /\ submitted = "none" /\ edits = 0

StoreIdle ==
    /\ data = <<>> /\ isLoading = FALSE /\ isLocked = FALSE /\ isError = FALSE
    /\ isSetupRequired = FALSE /\ encryptionKey = "null" /\ tenantId = "null"
    /\ isLoaded = FALSE /\ initPending = <<>> /\ localStorage = <<>>
    /\ db = <<>> /\ hasApiCreds = FALSE /\ serverUp = FALSE /\ pending = <<>>
    /\ nextId = 0 /\ calls = 0 /\ lastCall = <<>>

SheetIdle ==
    /\ sheetData = <<>> /\ spreadsheetId = "null" /\ loggedIn = FALSE
    /\ sheetLoading = FALSE /\ isSyncing = FALSE /\ sheetError = FALSE
    /\ sheets = <<>> /\ loads = <<>> /\ started = 0 /\ shown = 0 /\ newest = 0

CryptoIdle ==
    /\ cData = <<>> /\ cPassword = <<>> /\ cSealed = {} /\ cOriginal = <<>>
    /\ cPackage = <<>> /\ cResult = <<>> /\ cInner = {} /\ cStep = "idle"

ServerIdle ==
    /\ kvFiles = <<>> /\ kvPuts = <<>> /\ kvReq = <<>> /\ kvRes = <<>>
    /\ kvTouched = {} /\ kvCount = 0

ScriptIdle ==
    /\ bpExpected = <<>> /\ bpFixed = {} /\ bpNow = 0 /\ bpThreads = <<>>
    /\ bpManual = <<>> /\ bpOverride = <<>> /\ bpLog = <<>> /\ bpStatus = <<>>
    /\ bpPaid = <<>> /\ bpMails = <<>> /\ bpDone = <<>> /\ bpRuns = 0

PinIdle ==
    /\ authStep = "loading" /\ pinError = "null" /\ encryptedKey = "null"
    /\ storedKey = "null" /\ enteredPin = <<>> /\ unlockPc = "unmounted"
    /\ loginSuccesses = <<>> /\ unlocks = 0

(***************************************************************************)
(* Units and small helpers                                                 *)
(***************************************************************************)
\* 0.01 (the tolerance of Dashboard.tsx) in model units.
Cent == 600

Abs(x) == IF x < 0 THEN -x ELSE x

Min(a, b) == IF a < b THEN a ELSE b

RECURSIVE SumSeq(_)
SumSeq(s) == IF s = <<>> THEN 0 ELSE Head(s) + SumSeq(Tail(s))

RECURSIVE SumFun(_)
\* the sum of the values of a function with a finite domain
SumFun(f) ==
    IF DOMAIN f = {} THEN 0
    ELSE LET k == CHOOSE x \in DOMAIN f : TRUE
         IN  f[k] + SumFun([y \in DOMAIN f \ {k} |-> f[y]])

\* b[id], reading a missing key as 0
Bal(b, id) == IF id \in DOMAIN b THEN b[id] ELSE 0

(***************************************************************************)
(* addBill's balance update (the same code in both stores)                 *)
(***************************************************************************)
\* The double NaN, which undefined - x and NaN + x evaluate to.
NaN == 999999999

Plus(a, d) == IF a = NaN \/ d = NaN THEN NaN ELSE a + d

Credit_Overwrite(b, id, d) ==
    [k \in DOMAIN b \cup {id} |-> IF k = id THEN d ELSE b[k]]

\* if (newBalances[id] === undefined) newBalances[id] = 0; newBalances[id] += d
Credit(b, id, d) ==
    [k \in DOMAIN b \cup {id} |-> IF k = id THEN Plus(Bal(b, id), d) ELSE b[k]]

RECURSIVE DebitSplits(_, _)
\* bill.splits.forEach(split => newBalances[split.housemateId] -= split.amount)
DebitSplits(b, sp) ==
    IF sp = <<>> THEN b
    ELSE DebitSplits(Credit(b, Head(sp).housemateId, -Head(sp).amount), Tail(sp))

AddBillBalances_NoDebit(b, bill) == Credit(b, bill.payerId, bill.amount)

AddBillBalances(b, bill) ==
    DebitSplits(Credit(b, bill.payerId, bill.amount), bill.splits)

(***************************************************************************)
(* Dashboard.tsx: debts (the settlement plan)                              *)
(***************************************************************************)
RECURSIVE InsertDesc(_, _)
\* insert e after every element whose amount is >= e.amount: a stable
\* descending sort, as Array.prototype.sort with (a, b) => b.amount - a.amount
InsertDesc(s, e) ==
    IF s = <<>> THEN <<e>>
    ELSE IF Head(s).amount >= e.amount THEN <<Head(s)>> \o InsertDesc(Tail(s), e)
    ELSE <<e>> \o s

RECURSIVE SortDesc(_)
SortDesc(s) ==
    IF s = <<>> THEN <<>>
    ELSE InsertDesc(SortDesc(SubSeq(s, 1, Len(s) - 1)), s[Len(s)])

RECURSIVE Debtors(_, _)
\* if (balance < -0.01) debtors.push({ id, amount: -balance })
Debtors(b, order) ==
    IF order = <<>> THEN <<>>
    ELSE (IF b[Head(order)] < -Cent
          THEN <<[id |-> Head(order), amount |-> -b[Head(order)]]>>
          ELSE <<>>) \o Debtors(b, Tail(order))

RECURSIVE Creditors(_, _)
\* if (balance > 0.01) creditors.push({ id, amount: balance })
Creditors(b, order) ==
    IF order = <<>> THEN <<>>
    ELSE (IF b[Head(order)] > Cent
          THEN <<[id |-> Head(order), amount |-> b[Head(order)]]>>
          ELSE <<>>) \o Creditors(b, Tail(order))

Advance_Never(remaining) == remaining < 0

\* if (debtor.amount < 0.01) i++;  if (creditor.amount < 0.01) j++
Advance(remaining) == remaining < Cent

\* handleConfirmSettle: the bill recorded for one transaction of the plan
SettlementBill(tx) ==
    [payerId |-> tx.from, amount |-> tx.amount, splitMethod |-> "exact",
     splits |-> <<[housemateId |-> tx.to, amount |-> tx.amount]>>,
     type |-> "settlement"]


(***************************************************************************)
(* GoogleSheetsService.fetch                                               *)
(***************************************************************************)
MaxCalls == 3

\* the responses a request can get: a status, and whether the body parses as
\* JSON; status 0 with json FALSE stands for fetch() rejecting (network error)
Responses == [status : {200, 401, 500}, json : BOOLEAN] \cup {NoResponse}

\* logout(): the token, the key and the expiry are dropped
Logout ==
    /\ accessToken' = "none" /\ serviceAccountKey' = FALSE /\ tokenExpiration' = "null"

\* refreshServiceAccountToken() succeeding: setAccessToken, new expiry
Refreshed ==
    /\ accessToken' = "token" /\ tokenExpiration' = "fresh"
    /\ UNCHANGED serviceAccountKey

AfterRetry_Again(r) == IF r.status = 401 THEN "refresh" ELSE "done"

\* line 70: return (await fetch(url, ...)).json(): whatever the retried
\* request is answered with, the call ends
AfterRetry(r) == "done"

\* result of response.json() of the retried request (line 70)
RetryResult(r) == IF r.json THEN "value" ELSE "error"

\* setAccessToken(token): the OAuth login
SetAccessToken ==
    /\ fPc = "idle"
    /\ accessToken' = "token"
    /\ UNCHANGED <<serviceAccountKey, tokenExpiration, fPc, fSends, fRefreshes,
                   fRefreshed, fFirst, fHadKey, fLast, fResult, fCalls>>

\* loginWithServiceAccount(credentials): the key is kept even when the token
\* exchange fails
LoginWithServiceAccount ==
    /\ fPc = "idle"
    /\ serviceAccountKey' = TRUE
    /\ \E ok \in BOOLEAN :
         IF ok THEN accessToken' = "token" /\ tokenExpiration' = "fresh"
         ELSE UNCHANGED <<accessToken, tokenExpiration>>
    /\ UNCHANGED <<fPc, fSends, fRefreshes, fRefreshed, fFirst, fHadKey, fLast,
                   fResult, fCalls>>

\* time passes: the token comes within a minute of its expiry
TokenAges ==
    /\ fPc = "idle" /\ tokenExpiration = "fresh"
    /\ tokenExpiration' = "near"
    /\ UNCHANGED <<accessToken, serviceAccountKey, fPc, fSends, fRefreshes,
                   fRefreshed, fFirst, fHadKey, fLast, fResult, fCalls>>

\* lines 40-55: the proactive refresh, the token check, the first request
FetchCall ==
    /\ fPc = "idle" /\ fCalls < MaxCalls
    /\ fCalls' = fCalls + 1
    /\ fRefreshes' = 0 /\ fRefreshed' = FALSE
    /\ fFirst' = NoResponse /\ fLast' = NoResponse /\ fHadKey' = FALSE
    /\ \E ok \in BOOLEAN :
         IF serviceAccountKey /\ tokenExpiration = "near"
         THEN IF ok
              THEN /\ Refreshed
                   /\ fSends' = 1 /\ fPc' = "await1" /\ fResult' = "none"
              ELSE \* the refresh throws out of fetch
                   /\ UNCHANGED <<accessToken, serviceAccountKey, tokenExpiration>>
                   /\ fSends' = 0 /\ fPc' = "done" /\ fResult' = "error"
         ELSE /\ UNCHANGED <<accessToken, serviceAccountKey, tokenExpiration>>
              /\ IF accessToken = "none"
                 THEN fSends' = 0 /\ fPc' = "done" /\ fResult' = "error"
                 ELSE fSends' = 1 /\ fPc' = "await1" /\ fResult' = "none"

\* lines 55-86: the first response arrives
FirstResponse ==
    /\ fPc = "await1"
    /\ \E r \in Responses :
         /\ fFirst' = r /\ fLast' = r
         /\ IF r = NoResponse
            THEN /\ fPc' = "done" /\ fResult' = "error" /\ fHadKey' = FALSE
                 /\ UNCHANGED <<accessToken, serviceAccountKey, tokenExpiration>>
            ELSE IF r.status = 401
            THEN /\ fHadKey' = serviceAccountKey
                 /\ IF serviceAccountKey
                    THEN /\ fPc' = "refresh" /\ fResult' = "none"
                         /\ UNCHANGED <<accessToken, serviceAccountKey, tokenExpiration>>
                    ELSE /\ Logout /\ fPc' = "done" /\ fResult' = "error"
            ELSE /\ fHadKey' = FALSE
                 /\ fPc' = "done"
                 /\ fResult' = IF r.status = 200 /\ r.json THEN "value" ELSE "error"
                 /\ UNCHANGED <<accessToken, serviceAccountKey, tokenExpiration>>
    /\ UNCHANGED <<fSends, fRefreshes, fRefreshed, fCalls>>

\* lines 61-74: the refresh after a 401 ends; on success the request is sent
\* again, on failure the catch block logs out
RefreshDone ==
    /\ fPc = "refresh"
    /\ fRefreshes' = fRefreshes + 1
    /\ \E ok \in BOOLEAN :
         IF ok /\ serviceAccountKey
         THEN /\ Refreshed /\ fSends' = fSends + 1 /\ fPc' = "await2"
              /\ fRefreshed' = TRUE
              /\ UNCHANGED fResult
         ELSE /\ Logout /\ fPc' = "done" /\ fResult' = "error"
              /\ UNCHANGED <<fSends, fRefreshed>>
    /\ UNCHANGED <<fFirst, fHadKey, fLast, fCalls>>

\* line 70: the response of the retried request
RetryResponse ==
    /\ fPc = "await2"
    /\ \E r \in Responses :
         /\ fLast' = r
         /\ IF r = NoResponse
            THEN \* fetch rejected inside the try block
                 /\ Logout /\ fPc' = "done" /\ fResult' = "error"
            ELSE /\ fPc' = AfterRetry(r)
                 /\ fResult' = IF AfterRetry(r) = "done" THEN RetryResult(r) ELSE "none"
                 /\ UNCHANGED <<accessToken, serviceAccountKey, tokenExpiration>>
    /\ UNCHANGED <<fSends, fRefreshes, fRefreshed, fFirst, fHadKey, fCalls>>

\* the caller receives the value or the error
FetchReturn ==
    /\ fPc = "done"
    /\ fPc' = "idle"
    /\ UNCHANGED <<accessToken, serviceAccountKey, tokenExpiration, fSends,
                   fRefreshes, fRefreshed, fFirst, fHadKey, fLast, fResult, fCalls>>

FetchInit ==
    /\ FetchIdle
    /\ SettleIdle /\ FormIdle /\ StoreIdle /\ SheetIdle /\ CryptoIdle /\ ServerIdle /\ ScriptIdle /\ PinIdle

FetchNext ==
    \/ (SetAccessToken /\ UNCHANGED notFetch)
    \/ (LoginWithServiceAccount /\ UNCHANGED notFetch)
    \/ (TokenAges /\ UNCHANGED notFetch)
    \/ (FetchCall /\ UNCHANGED notFetch)
    \/ (FirstResponse /\ UNCHANGED notFetch)
    \/ (RefreshDone /\ UNCHANGED notFetch)
    \/ (RetryResponse /\ UNCHANGED notFetch)
    \/ (FetchReturn /\ UNCHANGED notFetch)

SpecFetch == FetchInit /\ [][FetchNext]_vars

\* C10: a fetch call sends the original request at most twice, whatever the
\* responses are; a 401 with a service-account key held leads to one refresh
\* and, when the refresh succeeds, to exactly one more send of the request;
\* without a key nothing is refreshed or sent again.
C10_RetryOnce ==
    /\ fSends <= 2 /\ fRefreshes <= 1
    /\ (fPc = "done" /\ fFirst.status = 401 /\ fHadKey) =>
           /\ fRefreshes = 1
           /\ fSends = IF fRefreshed THEN 2 ELSE 1
    /\ (fPc = "done" /\ fFirst.status = 401 /\ ~fHadKey) => fSends = 1 /\ fRefreshes = 0
    /\ (fPc = "done" /\ fFirst.status # 401) => fSends <= 1 /\ fRefreshes = 0

\* a call whose retried request was answered with 401 again has ended
C10_Witness ==
    /\ fPc = "done" /\ fFirst.status = 401 /\ fHadKey
    /\ fSends = 2 /\ fLast.status = 401

\* C29: fetch hands a value to its caller only when the last HTTP response it
\* received was successful: after a failed credential refresh, or a retried
\* request answered with 401 or another non-OK status, the call ends with an
\* error and not with the response body as data.
C29_ValueOnlyAfterOk ==
    (fPc = "done" /\ fResult = "value") => fLast.status = 200

(***************************************************************************)
(* BillEntry.tsx: the entry form                                           *)
(***************************************************************************)
\* the user's edits of the form in one run of the model; a submission needs
\* at least a title and an amount, so the bills recorded are bounded too
MaxEdits == 6

AllHousemates == <<"h1", "h2">>

billCategories == <<"c1", "c2">>

\* what the amount field can hold: empty, 0, or a whole number of cents
\* (the input has min=0 and step=0.01)
AmountInputs == {<<>>, <<0>>, <<2 * Cent>>}

\* what handleShareChange receives: parseFloat(value) || 0
ShareInputs == {0, 50}

\* parseFloat(amount) || 0
ParseAmount(a) == IF a = <<>> THEN 0 ELSE a[1]

\* a / b on doubles; where the model's unit does not divide the quotient it is
\* rounded down to the unit (1/600 of 0.01)
Div(a, b) == a \div b

RECURSIVE SumShares(_)
\* splits.reduce((sum, s) => sum + (s.share || 0), 0)
SumShares(sp) == IF sp = <<>> THEN 0 ELSE Head(sp).share + SumShares(Tail(sp))

RECURSIVE SumAmounts(_)
SumAmounts(sp) == IF sp = <<>> THEN 0 ELSE Head(sp).amount + SumAmounts(Tail(sp))

Shares(sp) == [i \in DOMAIN sp |-> sp[i].share]

\* the most recent bill with this category and split method, or <<>>
LastBill(bs, cat, method) ==
    LET idx == {i \in DOMAIN bs : bs[i].categoryId = cat /\ bs[i].splitMethod = method}
    IN  IF idx = {} THEN <<>>
        ELSE <<bs[CHOOSE i \in idx : \A j \in idx : j <= i]>>

\* lastBill.splits.find(s => s.housemateId === h)?.share, or 0
SavedShare(bill, h) ==
    LET idx == {i \in DOMAIN bill.splits : bill.splits[i].housemateId = h}
    IN  IF idx = {} THEN 0
        ELSE bill.splits[CHOOSE i \in idx : \A j \in idx : i <= j].share

\* A rendered state of the form: the component's state and the store values
\* it reads.  v is the render whose closures the effects run with, n the
\* state the queued updates have produced so far.

\* lines 22-34: initialize splits, payer and category
InitEffect(v, n) ==
    LET n1 == IF Len(v.housemates) > 0 /\ Len(v.splits) = 0
              THEN [n EXCEPT !.splits =
                      [i \in DOMAIN v.housemates |->
                          [housemateId |-> v.housemates[i], amount |-> 0,
                           share |-> IF v.splitMethod = "equal" THEN 1 ELSE 0]]]
              ELSE n
        n2 == IF Len(v.housemates) > 0 /\ v.payerId = ""
              THEN [n1 EXCEPT !.payerId = v.housemates[1]]
              ELSE n1
    IN  IF Len(billCategories) > 0 /\ v.categoryId = ""
        THEN [n2 EXCEPT !.categoryId = billCategories[1]]
        ELSE n2

\* lines 37-58: auto-fill the shares from the previous bill of the category
AutoFillEffect(v, n) ==
    IF v.categoryId = "" \/ v.splitMethod = "equal" THEN n
    ELSE LET last == LastBill(v.bills, v.categoryId, v.splitMethod)
         IN  IF last = <<>> THEN n
             ELSE [n EXCEPT !.splits =
                     [i \in DOMAIN v.housemates |->
                         [housemateId |-> v.housemates[i], amount |-> 0,
                          share |-> SavedShare(last[1], v.housemates[i])]]]

\* lines 74-80, the shares branch
RecalcShares(total, totalShares, sp) ==
    IF totalShares > 0
    THEN [i \in DOMAIN sp |->
             [sp[i] EXCEPT !.amount = Div(total * sp[i].share, totalShares)]]
    ELSE sp

RecalcEqual_Truncated(total, hs) ==
    [i \in DOMAIN hs |->
        [housemateId |-> hs[i], amount |-> Div(total, Len(hs) + 1), share |-> 1]]

\* lines 65-67, the equal branch
RecalcEqual(total, hs) ==
    [i \in DOMAIN hs |->
        [housemateId |-> hs[i], amount |-> Div(total, Len(hs)), share |-> 1]]

RecalcPercentage_Reset(total, sp) ==
    [i \in DOMAIN sp |-> [sp[i] EXCEPT !.amount = 0, !.share = 0]]

\* lines 68-72, the percentage branch
RecalcPercentage(total, sp) ==
    [i \in DOMAIN sp |-> [sp[i] EXCEPT !.amount = Div(total * sp[i].share, 100)]]

\* lines 61-82: recalculate the amounts
RecalcEffect(v, n) ==
    LET totalAmount == ParseAmount(v.amount)
    IN  IF totalAmount = 0 THEN n
        ELSE IF v.splitMethod = "equal"
        THEN [n EXCEPT !.splits = RecalcEqual(totalAmount, v.housemates)]
        ELSE IF v.splitMethod = "percentage"
        THEN [n EXCEPT !.splits = RecalcPercentage(totalAmount, n.splits)]
        ELSE IF v.splitMethod = "shares"
        THEN [n EXCEPT !.splits = RecalcShares(totalAmount, SumShares(v.splits), n.splits)]
        ELSE n

\* the dependency arrays of the three effects
InitDeps(v) == <<v.housemates, v.categoryId, v.payerId, v.splitMethod, Len(v.splits)>>
AutoFillDeps(v) == <<v.categoryId, v.splitMethod, v.housemates, v.bills>>
RecalcDeps(v) == <<v.amount, v.housemates, v.splitMethod, Shares(v.splits)>>

RECURSIVE Render(_, _)
\* React renders v after p: every effect whose dependencies changed runs, in
\* the order of the source, and the updates they queue give the next render;
\* this repeats until a render queues no change.
Render(p, v) ==
    LET n1 == IF InitDeps(v) # InitDeps(p) THEN InitEffect(v, v) ELSE v
        n2 == IF AutoFillDeps(v) # AutoFillDeps(p) THEN AutoFillEffect(v, n1) ELSE n1
        n3 == IF RecalcDeps(v) # RecalcDeps(p) THEN RecalcEffect(v, n2) ELSE n2
    IN  IF n3 = v THEN v ELSE Render(v, n3)

\* the first render: every effect runs
Mount(v) ==
    LET n == RecalcEffect(v, AutoFillEffect(v, InitEffect(v, v)))
    IN  IF n = v THEN v ELSE Render(v, n)

View ==
    [title |-> title, amount |-> amount, payerId |-> payerId,
     splitMethod |-> splitMethod, splits |-> splits, categoryId |-> categoryId,
     housemates |-> housemates, bills |-> bills]

\* the form after the user's update u of the rendered state
Rendered(u) ==
    LET r == Render(View, u)
    IN  /\ title' = r.title /\ amount' = r.amount /\ payerId' = r.payerId
        /\ splitMethod' = r.splitMethod /\ splits' = r.splits
        /\ categoryId' = r.categoryId

\* lines 92-103: the bill handleSubmit passes to addBill
SubmittedBill ==
    [id |-> Len(bills) + 1, amount |-> ParseAmount(amount), payerId |-> payerId,
     splitMethod |-> splitMethod, splits |-> splits, categoryId |-> categoryId,
     type |-> "bill"]

\* one more edit of the form
Edited == edits < MaxEdits /\ edits' = edits + 1 /\ submitted' = "none"

SetTitle ==
    /\ ~title
    /\ Rendered([View EXCEPT !.title = TRUE])
    /\ Edited
    /\ UNCHANGED <<housemates, bills, balances>>

SetAmount ==
    /\ \E a \in AmountInputs :
         /\ a # amount
         /\ Rendered([View EXCEPT !.amount = a])
    /\ Edited
    /\ UNCHANGED <<housemates, bills, balances>>

SetPayerId ==
    /\ \E h \in DOMAIN housemates :
         /\ housemates[h] # payerId
         /\ Rendered([View EXCEPT !.payerId = housemates[h]])
    /\ Edited
    /\ UNCHANGED <<housemates, bills, balances>>

SetCategoryId ==
    /\ \E c \in DOMAIN billCategories :
         /\ billCategories[c] # categoryId
         /\ Rendered([View EXCEPT !.categoryId = billCategories[c]])
    /\ Edited
    /\ UNCHANGED <<housemates, bills, balances>>

SetSplitMethod ==
    /\ \E m \in {"equal", "percentage", "shares"} :
         /\ m # splitMethod
         /\ Rendered([View EXCEPT !.splitMethod = m])
    /\ Edited
    /\ UNCHANGED <<housemates, bills, balances>>

\* lines 84-86; the share inputs are shown for the other methods than equal
HandleShareChange ==
    /\ splitMethod # "equal"
    /\ \E i \in DOMAIN splits, value \in ShareInputs :
         /\ splits[i].share # value
         /\ Rendered([View EXCEPT !.splits[i].share = value])
    /\ Edited
    /\ UNCHANGED <<housemates, bills, balances>>

\* lines 88-109, with the store's addBill
HandleSubmit ==
    IF ~title \/ amount = <<>> \/ payerId = "" \/ categoryId = ""
    THEN /\ submitted' = "refused"
         /\ UNCHANGED <<title, amount, payerId, splitMethod, splits, categoryId,
                        housemates, bills, balances, edits>>
    ELSE /\ submitted' = "sent"
         /\ UNCHANGED edits
         /\ bills' = Append(bills, SubmittedBill)
         /\ balances' = AddBillBalances(balances, SubmittedBill)
         /\ Rendered([View EXCEPT !.title = FALSE, !.amount = <<>>,
                                  !.bills = Append(bills, SubmittedBill)])
         /\ UNCHANGED housemates

\* the store's addHousemate: the roster grows, the balance starts at 0
FormAddHousemate ==
    /\ Len(housemates) < Len(AllHousemates)
    /\ LET h == AllHousemates[Len(housemates) + 1]
       IN  /\ housemates' = Append(housemates, h)
           /\ balances' = [k \in DOMAIN balances \cup {h} |->
                              IF k = h THEN 0 ELSE balances[k]]
           /\ Rendered([View EXCEPT !.housemates = Append(housemates, h)])
    /\ Edited
    /\ UNCHANGED bills

\* the form is shown once there is a housemate; this is the state after the
\* first render and its effects
FormInit ==
    /\ SettleIdle /\ FetchIdle /\ StoreIdle /\ SheetIdle /\ CryptoIdle /\ ServerIdle /\ ScriptIdle /\ PinIdle
    /\ housemates = <<"h1">> /\ bills = <<>>
    /\ balances = [h \in {"h1"} |-> 0]
    /\ submitted = "none" /\ edits = 0
    /\ LET r == Mount([title |-> FALSE, amount |-> <<>>, payerId |-> "",
                       splitMethod |-> "equal", splits |-> <<>>, categoryId |-> "",
                       housemates |-> <<"h1">>, bills |-> <<>>])
       IN  /\ title = r.title /\ amount = r.amount /\ payerId = r.payerId
           /\ splitMethod = r.splitMethod /\ splits = r.splits
           /\ categoryId = r.categoryId

FormNext ==
    \/ (SetTitle /\ UNCHANGED notForm)
    \/ (SetAmount /\ UNCHANGED notForm)
    \/ (SetPayerId /\ UNCHANGED notForm)
    \/ (SetCategoryId /\ UNCHANGED notForm)
    \/ (SetSplitMethod /\ UNCHANGED notForm)
    \/ (HandleShareChange /\ UNCHANGED notForm)
    \/ (HandleSubmit /\ UNCHANGED notForm)
    \/ (FormAddHousemate /\ UNCHANGED notForm)

SpecForm == FormInit /\ [][FormNext]_vars

(***************************************************************************)
(* Claims about the bills the form records                                 *)
(***************************************************************************)
RECURSIVE Unsplit(_)
\* over the bills, the part of each amount that no split claims
Unsplit(bs) ==
    IF bs = <<>> THEN 0
    ELSE Head(bs).amount - SumAmounts(Head(bs).splits) + Unsplit(Tail(bs))

\* C2 (as stated): whatever the form submitted, the balances sum to zero
\* (within the 0.01 tolerance).
C2_ZeroSum == Abs(SumFun(balances)) <= Cent

\* C2 (amended): the balances sum to what the recorded bills leave unsplit,
\* amount minus split amounts; the sum is zero when every recorded bill was
\* submitted with the equal method and a non-zero amount.
C2_SumIsUnsplit ==
    /\ SumFun(balances) = Unsplit(bills)
    /\ (\A i \in DOMAIN bills :
           bills[i].splitMethod = "equal" /\ bills[i].amount # 0)
       => SumFun(balances) = 0

\* two equal bills among two housemates have been recorded
C2_Witness ==
    /\ Len(bills) = 2 /\ Len(housemates) = 2 /\ submitted = "sent"
    /\ \A i \in DOMAIN bills :
          bills[i].splitMethod = "equal" /\ bills[i].amount # 0
                                          /\ Len(bills[i].splits) = 2

\* C14: a bill submitted with the equal method holds one split per current
\* housemate, each of amount / count, and its split amounts sum to its amount
\* within 0.01.
C14_EqualSplitsConserve ==
    (submitted = "sent" /\ bills[Len(bills)].splitMethod = "equal") =>
        LET b == bills[Len(bills)]
        IN  /\ Len(b.splits) = Len(housemates)
            /\ \A i \in DOMAIN b.splits :
                   b.splits[i].amount = Div(b.amount, Len(housemates))
            /\ Abs(SumAmounts(b.splits) - b.amount) <= Cent

\* C15: with the shares method and a non-zero amount, when the shares sum to
\* zero every split of the form has amount 0.
C15_ZeroSharesZeroAmounts ==
    (splitMethod = "shares" /\ ParseAmount(amount) # 0 /\ SumShares(splits) = 0)
        => \A i \in DOMAIN splits : splits[i].amount = 0

\* C21: under the percentage and the shares method, an edit of one share
\* leaves the share of every other split as it was, and an edit of the amount
\* leaves every share as it was.
C21_SharesPreserved ==
    /\ [][(splitMethod \in {"percentage", "shares"} /\ HandleShareChange) =>
            /\ Len(splits') = Len(splits)
            /\ \E i \in DOMAIN splits :
                   \A j \in DOMAIN splits \ {i} : splits'[j].share = splits[j].share]_vars
    /\ [][(splitMethod \in {"percentage", "shares"} /\ SetAmount) =>
            Shares(splits') = Shares(splits)]_vars

\* two percentages were entered and the amounts of a bill of 2.00 follow them
C21_Witness ==
    /\ splitMethod = "percentage" /\ ParseAmount(amount) = 2 * Cent
    /\ Len(splits) = 2
    /\ \A i \in DOMAIN splits : splits[i].share = 50 /\ splits[i].amount = Cent

\* what the method of the bill makes of its amount and of the share of its
\* i-th split
OwnAmount(b, i) ==
    IF b.splitMethod = "equal" THEN Div(b.amount, Len(b.splits))
    ELSE IF b.splitMethod = "percentage" THEN Div(b.amount * b.splits[i].share, 100)
    ELSE IF SumShares(b.splits) > 0
         THEN Div(b.amount * b.splits[i].share, SumShares(b.splits))
         ELSE 0

\* C27: every split amount of a bill the form has submitted is the one its
\* method computes from the amount and the shares the bill was submitted with.
C27_SubmittedSplitsCurrent ==
    submitted = "sent" =>
        \A i \in DOMAIN bills[Len(bills)].splits :
            bills[Len(bills)].splits[i].amount = OwnAmount(bills[Len(bills)], i)

(***************************************************************************)
(* SpecSettle: the plan is computed from a balances map, then every        *)
(* transaction of it is recorded through addBill                           *)
(***************************************************************************)
HousemateIds == {"h1", "h2", "h3"}

\* the balances the plan is computed from: whole cents, half cents, both signs
BalanceValues ==
    {-5 * Cent, -2 * Cent, -(3 * Cent) \div 2, -Cent, 0,
     Cent \div 2, Cent, 2 * Cent, 3 * Cent, (7 * Cent) \div 2}

Orders == {o \in [1..Cardinality(HousemateIds) -> HousemateIds] :
              \A i, j \in DOMAIN o : i # j => o[i] # o[j]}

SettleInit ==
    /\ FetchIdle /\ FormIdle /\ StoreIdle /\ SheetIdle /\ CryptoIdle /\ ServerIdle /\ ScriptIdle /\ PinIdle
    /\ sBalances \in [HousemateIds -> BalanceValues]
    /\ sOrder \in Orders
    /\ sStart = sBalances
    /\ sDebtors = <<>> /\ sCreditors = <<>> /\ sI = 0 /\ sJ = 0
    /\ sPlan = <<>> /\ sIdx = 0 /\ sPc = "view"

\* Dashboard.tsx 43-56: partition, sort, i = j = 0
PlanStart ==
    /\ sPc = "view"
    /\ sDebtors' = SortDesc(Debtors(sBalances, sOrder))
    /\ sCreditors' = SortDesc(Creditors(sBalances, sOrder))
    /\ sI' = 1 /\ sJ' = 1 /\ sPlan' = <<>>
    /\ sPc' = "loop"
    /\ UNCHANGED <<sBalances, sOrder, sStart, sIdx>>

\* Dashboard.tsx 58-70: one iteration of the while loop
PlanStep ==
    /\ sPc = "loop"
    /\ sI <= Len(sDebtors) /\ sJ <= Len(sCreditors)
    /\ LET debtor   == sDebtors[sI]
           creditor == sCreditors[sJ]
           amt      == Min(debtor.amount, creditor.amount)
       IN  /\ sPlan' = Append(sPlan, [from |-> debtor.id, to |-> creditor.id,
                                      amount |-> amt])
           /\ sDebtors' = [sDebtors EXCEPT ![sI].amount = @ - amt]
           /\ sCreditors' = [sCreditors EXCEPT ![sJ].amount = @ - amt]
           /\ sI' = IF Advance(debtor.amount - amt) THEN sI + 1 ELSE sI
           /\ sJ' = IF Advance(creditor.amount - amt) THEN sJ + 1 ELSE sJ
    /\ UNCHANGED <<sBalances, sOrder, sStart, sIdx, sPc>>

\* Dashboard.tsx 58, 72: the loop condition fails, the plan is returned
PlanReturn ==
    /\ sPc = "loop"
    /\ ~(sI <= Len(sDebtors) /\ sJ <= Len(sCreditors))
    /\ sPc' = IF sPlan = <<>> THEN "done" ELSE "settling"
    /\ UNCHANGED <<sBalances, sOrder, sStart, sDebtors, sCreditors, sI, sJ, sPlan, sIdx>>

\* handleConfirmSettle for the next transaction of the plan
ConfirmSettle ==
    /\ sPc = "settling"
    /\ sIdx < Len(sPlan)
    /\ sBalances' = AddBillBalances(sBalances, SettlementBill(sPlan[sIdx + 1]))
    /\ sIdx' = sIdx + 1
    /\ sPc' = IF sIdx + 1 = Len(sPlan) THEN "done" ELSE "settling"
    /\ UNCHANGED <<sOrder, sStart, sDebtors, sCreditors, sI, sJ, sPlan>>

SettleNext ==
    \/ (PlanStart /\ UNCHANGED notSettle)
    \/ (PlanStep /\ UNCHANGED notSettle)
    \/ (PlanReturn /\ UNCHANGED notSettle)
    \/ (ConfirmSettle /\ UNCHANGED notSettle)

SpecSettle == SettleInit /\ [][SettleNext]_vars

(***************************************************************************)
(* Claims about the settlement plan                                        *)
(***************************************************************************)
WithinTolerance(b) == \A id \in DOMAIN b : Abs(b[id]) <= Cent

\* the balances sum to zero, are whole cents, and none is exactly +-0.01
WholeCentsZeroSum(b) ==
    /\ SumFun(b) = 0
    /\ \A id \in DOMAIN b : b[id] % Cent = 0 /\ Abs(b[id]) # Cent

Max0(x) == IF x < 0 THEN 0 ELSE x

PlanCount == Len(sDebtors) + Len(sCreditors)

\* C4 (as stated): for every balances map the plan has at most
\* #debtors + #creditors - 1 transactions.
C4_CountBelowParties ==
    (sPc \in {"settling", "done"}) => Len(sPlan) <= PlanCount - 1

\* C4 (amended): the plan has at most #debtors + #creditors - 1 transactions
\* when there is a debtor or a creditor, and none otherwise; and every
\* iteration of the loop advances i or j.
C4_PlanBound ==
    /\ [](sPc \in {"loop", "settling", "done"} => Len(sPlan) <= Max0(PlanCount - 1))
    /\ [][Len(sPlan') > Len(sPlan) => sI' > sI \/ sJ' > sJ]_vars

\* a plan of two transactions among three parties has been computed
C4_Witness ==
    /\ sPc = "settling" /\ PlanCount = 3 /\ Len(sPlan) = 2

(***************************************************************************)
(* client/services/DefaultService.ts: the local encrypted store            *)
(*                                                                         *)
(* A stored value is the JSON text under a key.  The model keeps its       *)
(* structure: Absent (no entry, or 404), Json(v) (the plain value v) or    *)
(* the package {data, salt, iv} that CryptoService.encrypt produces.  The  *)
(* ciphertext is modelled as the pair of the plaintext and the password    *)
(* that opens it.                                                          *)
(***************************************************************************)
Null == "null"

Passwords == {"p1", "p2"}

Tenants == {"t1"}

\* new Date().getFullYear().toString()
ThisYear == "2025"

\* the years a bill's date may fall in, in the order sort() gives them
AllYears == <<"2024", "2025">>

MaxBills == 2

MaxPending == 2

MaxOps == 4

\* one more operation is called, while the bound allows it; c is kept of it
CalledAs(c) == calls < MaxOps /\ calls' = calls + 1 /\ lastCall' = c

Called == CalledAs(<<>>)

\* the calls that are kept by name
Noted(name) == IF name = "removeHousemate" THEN [op |-> name] ELSE <<>>

META_KEY == "utility-splitter-meta"

BILLS_PREFIX == "utility-splitter-bills-"

BillsKey(year) == BILLS_PREFIX \o year

StoreKeys == {META_KEY} \cup {BillsKey(AllYears[i]) : i \in DOMAIN AllYears}

initialMeta ==
    [housemates |-> <<>>,
     billCategories |-> <<[id |-> "1", name |-> "Utilities"],
                          [id |-> "2", name |-> "Rent"],
                          [id |-> "3", name |-> "Internet"],
                          [id |-> "4", name |-> "Groceries"],
                          [id |-> "5", name |-> "Other"]>>,
     balances |-> <<>>,
     availableYears |-> <<ThisYear>>]

initialData == [meta |-> initialMeta, currentYear |-> ThisYear, currentBills |-> <<>>]

Absent == [absent |-> TRUE]

Json(v) == [value |-> v]

IsAbsent(stored) == "absent" \in DOMAIN stored

\* storedData.iv && storedData.data
IsPackage(stored) == {"iv", "data"} \subseteq DOMAIN stored

\* CryptoService.encrypt, then JSON.parse of its result
Encrypt(v, password) ==
    [data |-> [plain |-> v, key |-> password], salt |-> "salt", iv |-> "iv"]

\* CryptoService.decrypt and JSON.parse; a throw becomes 'ERROR' in the caller
Decrypt(package, password) ==
    IF package.data.key = password
    THEN [tag |-> "value", value |-> package.data.plain]
    ELSE [tag |-> "ERROR"]

\* the browser's and the server's storage, passed through an operation
Cur == [ls |-> localStorage, db |-> db]

EmptyKv == [k \in StoreKeys |-> Absent]

\* apiCall('GET', key): null without credentials or tenant, on 404, on failure
ApiGet(S, key) ==
    IF ~hasApiCreds \/ S.ls.tenant = Null \/ ~serverUp THEN Absent
    ELSE S.db[S.ls.tenant][key]

\* apiCall('PUT', key, data)
ApiPut(S, key, obj) ==
    IF ~hasApiCreds \/ S.ls.tenant = Null \/ ~serverUp THEN S
    ELSE [S EXCEPT !.db[S.ls.tenant][key] = obj]

\* localStorage.setItem(key, JSON.stringify(obj)), then the PUT
Store(S, key, obj) == ApiPut([S EXCEPT !.ls.kv[key] = obj], key, obj)

Fetched_LocalFirst(S, key) ==
    IF IsAbsent(S.ls.kv[key]) THEN ApiGet(S, key) ELSE S.ls.kv[key]

\* loadFromStorage, steps 1 and 2: the server first, then localStorage
Fetched(S, key) ==
    LET remote == ApiGet(S, key)
    IN  IF IsAbsent(remote) THEN S.ls.kv[key] ELSE remote

WithoutPassword_Opened(package) == [tag |-> "value", value |-> package.data.plain]

\* if (!password) return 'LOCKED';
WithoutPassword(package) == [tag |-> "LOCKED"]

\* loadFromStorage, step 3
Interpret(stored, password) ==
    IF IsAbsent(stored) THEN [tag |-> "null"]
    ELSE IF IsPackage(stored)
         THEN IF password = Null THEN WithoutPassword(stored)
              ELSE Decrypt(stored, password)
         ELSE [tag |-> "value",
               value |-> IF "value" \in DOMAIN stored THEN stored.value ELSE stored]

loadFromStorage(S, key, password) == Interpret(Fetched(S, key), password)

SaveAllowed_Always(loaded, locked, error) == TRUE

\* if (!isLoaded.current || isLocked || isError) return;
SaveAllowed(loaded, locked, error) == loaded /\ ~locked /\ ~error

Pack_Plain(value, key) == Json(value)

\* dataToSave: the package when a key is set, else the value itself
Pack(value, key) == IF key # Null THEN Encrypt(value, key) ELSE Json(value)

\* saveToStorage as the render with the given key and flags created it
saveToStorage(S, key, value, encKey, locked, error) ==
    IF ~SaveAllowed(isLoaded, locked, error) THEN S
    ELSE Store(S, key, Pack(value, encKey))

Blocked == ~isLoaded \/ isLocked \/ isError

\* newBalances[id] -= d, with no test for undefined
Reverse(b, id, d) ==
    [k \in DOMAIN b \cup {id} |->
        IF k = id THEN (IF id \in DOMAIN b THEN Plus(b[id], -d) ELSE NaN) ELSE b[k]]

RECURSIVE ReverseSplits(_, _)
\* bill.splits.forEach(split => newBalances[split.housemateId] += split.amount)
ReverseSplits(b, sp) ==
    IF sp = <<>> THEN b
    ELSE ReverseSplits(Reverse(b, Head(sp).housemateId, -Head(sp).amount), Tail(sp))

\* deleteBill's balance update
DeleteBillBalances(b, bill) ==
    ReverseSplits(Reverse(b, bill.payerId, bill.amount), bill.splits)

\* [...years, billYear].sort()
SortedYears(ys) == SelectSeq(AllYears, LAMBDA y : \E i \in DOMAIN ys : ys[i] = y)

HasYear(ys, y) == \E i \in DOMAIN ys : ys[i] = y

\* the bills the callers pass to addBill and updateBill
NewBill(id, year) ==
    [id |-> id, amount |-> 2 * Cent, payerId |-> "h1", date |-> year,
     splits |-> <<[housemateId |-> "h1", amount |-> Cent],
                  [housemateId |-> "h2", amount |-> Cent]>>]

EditedBill(old) ==
    [old EXCEPT !.amount = 4 * Cent, !.payerId = "h2",
                !.splits = <<[housemateId |-> "h1", amount |-> 2 * Cent],
                             [housemateId |-> "h2", amount |-> 2 * Cent]>>]

NewHousemates == {[id |-> "h1", name |-> "Ann"]}

NewNames == {"Bob"}

NewCategories == {[id |-> "6", name |-> "Pets"]}

FindBill(bs, id) == SelectSeq(bs, LAMBDA b : b.id = id)

UpdateBillBalances_NoReverse(b, oldBill, updatedBill) ==
    AddBillBalances(b, updatedBill)

\* updateBill's balance update: the old bill is taken out, the new one put in
UpdateBillBalances(b, oldBill, updatedBill) ==
    AddBillBalances(DeleteBillBalances(b, oldBill), updatedBill)

\* deleteBill's updater: the state deleteBill(id) makes of the state d
AfterDeleteBill(d, id) ==
    LET found == FindBill(d.currentBills, id)
    IN  IF found = <<>> THEN d
        ELSE [d EXCEPT !.meta.balances = DeleteBillBalances(@, found[1]),
                       !.currentBills = SelectSeq(@, LAMBDA b : b.id # id)]

RemoveAt(s, i) == SubSeq(s, 1, i - 1) \o SubSeq(s, i + 1, Len(s))

\* the documents handed to importData: text that is not JSON, JSON without
\* meta, without bills, without both, and a backup of an empty ledger
ImportDocs == {[json |-> FALSE],
               [json |-> TRUE],
               [json |-> TRUE, bills |-> <<>>],
               [json |-> TRUE, meta |-> initialMeta],
               [json |-> TRUE, meta |-> initialMeta, bills |-> <<>>]}

\* JSON.parse(jsonString) returns, and importedData.meta and .bills are there
Importable(doc) == doc.json /\ {"meta", "bills"} \subseteq DOMAIN doc

ImportCaught_Thrown == "throw"

\* catch (e) { console.error("Import failed", e); return false; }
ImportCaught == "false"

\* The state a page load constructs, with the initStore effect started:
\* it has read PASSWORD_KEY and TENANT_KEY and awaits the first load.
Boot(ls) ==
    /\ data' = initialData
    /\ isLoading' = TRUE /\ isLocked' = FALSE /\ isError' = FALSE
    /\ isSetupRequired' = FALSE
    /\ encryptionKey' = ls.password /\ tenantId' = ls.tenant
    /\ isLoaded' = FALSE /\ pending' = <<>>
    /\ initPending' = <<[savedPassword |-> ls.password, savedTenantId |-> ls.tenant]>>

StoreInit ==
    /\ data = initialData
    /\ isLoading = TRUE /\ isLocked = FALSE /\ isError = FALSE
    /\ isSetupRequired = FALSE
    /\ encryptionKey = Null /\ tenantId = Null
    /\ isLoaded = FALSE /\ pending = <<>>
    /\ initPending = <<[savedPassword |-> Null, savedTenantId |-> Null]>>
    /\ localStorage = [password |-> Null, tenant |-> Null, kv |-> EmptyKv]
    /\ db = [t \in Tenants |-> EmptyKv]
    /\ hasApiCreds \in BOOLEAN
    /\ serverUp = TRUE
    /\ nextId = 1
    /\ calls = 0
    /\ lastCall = <<>>
    /\ SettleIdle /\ FetchIdle /\ FormIdle /\ SheetIdle /\ CryptoIdle /\ ServerIdle /\ ScriptIdle /\ PinIdle

\* the initStore effect, from its first load to its end
InitStore ==
    /\ initPending # <<>>
    /\ LET savedPassword == initPending[1].savedPassword
           savedTenantId == initPending[1].savedTenantId
           metaStored == Fetched(Cur, META_KEY)
           metaResult == Interpret(metaStored, savedPassword)
           billsKey == BillsKey(ThisYear)
           billsStored == Fetched(Cur, billsKey)
           billsResult == Interpret(billsStored, savedPassword)
           stop(locked, error, setup) ==
               /\ isLocked' = locked /\ isError' = error
               /\ isSetupRequired' = setup
               /\ UNCHANGED <<data, isLoaded>>
       IN  /\ IF metaResult.tag = "LOCKED" THEN stop(TRUE, FALSE, FALSE)
              ELSE IF metaResult.tag = "ERROR" THEN stop(FALSE, TRUE, FALSE)
              ELSE IF (metaResult.tag = "null" /\ savedPassword = Null)
                      \/ savedTenantId = Null
                   THEN stop(FALSE, FALSE, TRUE)
              ELSE IF billsResult.tag = "LOCKED"
                   THEN stop(TRUE, FALSE, FALSE)
              ELSE IF billsResult.tag = "ERROR"
                   THEN stop(FALSE, TRUE, FALSE)
              ELSE /\ data' = [meta |-> IF metaResult.tag = "value"
                                        THEN metaResult.value ELSE initialMeta,
                               currentYear |-> ThisYear,
                               currentBills |-> IF billsResult.tag = "value"
                                                THEN billsResult.value ELSE <<>>]
                   /\ isLoaded' = TRUE
                   /\ UNCHANGED <<isLocked, isError, isSetupRequired>>
    /\ isLoading' = FALSE
    /\ initPending' = <<>>
    /\ UNCHANGED <<encryptionKey, tenantId, localStorage, db, hasApiCreds, serverUp,
                   pending, nextId, calls, lastCall>>

\* what every operation on the meta record does: setData, then
\* saveToStorage(META_KEY, newState.meta)
SaveMeta(name, newMeta) ==
    LET S == saveToStorage(Cur, META_KEY, newMeta, encryptionKey, isLocked, isError)
    IN  /\ CalledAs(Noted(name))
        /\ data' = [data EXCEPT !.meta = newMeta]
        /\ localStorage' = S.ls /\ db' = S.db
        /\ UNCHANGED <<isLoading, isLocked, isError, isSetupRequired, encryptionKey,
                       tenantId, isLoaded, initPending, hasApiCreds, serverUp,
                       pending, nextId>>

AddHousemate ==
    \E h \in NewHousemates :
        /\ ~\E i \in DOMAIN data.meta.housemates : data.meta.housemates[i].id = h.id
        /\ h.id \notin DOMAIN data.meta.balances
        /\ SaveMeta("addHousemate",
               [data.meta EXCEPT
                   !.housemates = Append(@, h),
                   !.balances = [k \in DOMAIN @ \cup {h.id} |->
                                    IF k = h.id THEN 0 ELSE @[k]]])

WithoutHousemate_Cascaded(meta, id) ==
    [meta EXCEPT !.housemates = SelectSeq(@, LAMBDA x : x.id # id),
                 !.balances = [k \in DOMAIN @ \ {id} |-> @[k]]]

\* removeHousemate's new meta: housemates.filter(h => h.id !== id)
WithoutHousemate(meta, id) ==
    [meta EXCEPT !.housemates = SelectSeq(@, LAMBDA x : x.id # id)]

RemoveHousemate ==
    \E h \in NewHousemates :
        SaveMeta("removeHousemate", WithoutHousemate(data.meta, h.id))

UpdateHousemate ==
    \E h \in NewHousemates, name \in NewNames :
        SaveMeta("updateHousemate",
            [data.meta EXCEPT
                !.housemates = [i \in DOMAIN @ |->
                    IF @[i].id = h.id THEN [@[i] EXCEPT !.name = name] ELSE @[i]]])

AddBillCategory ==
    \E c \in NewCategories :
        /\ ~\E i \in DOMAIN data.meta.billCategories : data.meta.billCategories[i].id = c.id
        /\ SaveMeta("addBillCategory",
               [data.meta EXCEPT !.billCategories = Append(@, c)])

DeleteBillCategory ==
    \E c \in NewCategories :
        SaveMeta("deleteBillCategory",
            [data.meta EXCEPT !.billCategories = SelectSeq(@, LAMBDA x : x.id # c.id)])

UpdateBillCategory ==
    \E c \in NewCategories, name \in NewNames :
        SaveMeta("updateBillCategory",
            [data.meta EXCEPT
                !.billCategories = [i \in DOMAIN @ |->
                    IF @[i].id = c.id THEN [@[i] EXCEPT !.name = name] ELSE @[i]]])

\* addBill.  For a bill of another year the existing list is fetched when
\* the call is made and saved, with the bill in front, when the load resolves.
AddBill ==
    \E year \in {AllYears[i] : i \in DOMAIN AllYears} :
        /\ nextId <= MaxBills
        /\ Called
        /\ LET bill == NewBill(nextId, year)
               newMeta == [data.meta EXCEPT
                   !.balances = AddBillBalances(@, bill),
                   !.availableYears = IF HasYear(@, year) THEN @
                                      ELSE SortedYears(Append(@, year))]
               S1 == saveToStorage(Cur, META_KEY, newMeta, encryptionKey, isLocked, isError)
               newBills == <<bill>> \o data.currentBills
               S2 == saveToStorage(S1, BillsKey(year), newBills, encryptionKey,
                                   isLocked, isError)
           IN  IF year = data.currentYear
               THEN /\ data' = [data EXCEPT !.meta = newMeta, !.currentBills = newBills]
                    /\ localStorage' = S2.ls /\ db' = S2.db
                    /\ UNCHANGED pending
               ELSE /\ Len(pending) < MaxPending
                    /\ data' = [data EXCEPT !.meta = newMeta]
                    /\ localStorage' = S1.ls /\ db' = S1.db
                    /\ pending' = Append(pending,
                           [op |-> "addBill", year |-> year, key |-> BillsKey(year),
                            stored |-> Fetched(S1, BillsKey(year)),
                            encKey |-> encryptionKey, locked |-> isLocked,
                            error |-> isError, bill |-> bill])
        /\ nextId' = nextId + 1
        /\ UNCHANGED <<isLoading, isLocked, isError, isSetupRequired, encryptionKey,
                       tenantId, isLoaded, initPending, hasApiCreds, serverUp>>

\* .then(existingBills => saveToStorage(key, [bill, ...bills]))
AddBillThen ==
    \E i \in DOMAIN pending :
        /\ pending[i].op = "addBill"
        /\ LET p == pending[i]
               result == Interpret(p.stored, p.encKey)
               existing == IF result.tag = "value" THEN result.value ELSE <<>>
               S == saveToStorage(Cur, p.key, <<p.bill>> \o existing, p.encKey,
                                  p.locked, p.error)
           IN  localStorage' = S.ls /\ db' = S.db
        /\ pending' = RemoveAt(pending, i)
        /\ UNCHANGED <<data, isLoading, isLocked, isError, isSetupRequired,
                       encryptionKey, tenantId, isLoaded, initPending, hasApiCreds,
                       serverUp, nextId, calls, lastCall>>

DeleteBill ==
    \E id \in 1..MaxBills :
        /\ Called
        /\ LET found == FindBill(data.currentBills, id)
           IN  IF found = <<>>
               THEN UNCHANGED <<data, localStorage, db>>
               ELSE LET newMeta == AfterDeleteBill(data, id).meta
                        newBills == AfterDeleteBill(data, id).currentBills
                        S1 == saveToStorage(Cur, META_KEY, newMeta, encryptionKey,
                                            isLocked, isError)
                        S2 == saveToStorage(S1, BillsKey(data.currentYear), newBills,
                                            encryptionKey, isLocked, isError)
                    IN  /\ data' = [data EXCEPT !.meta = newMeta,
                                                !.currentBills = newBills]
                        /\ localStorage' = S2.ls /\ db' = S2.db
        /\ UNCHANGED <<isLoading, isLocked, isError, isSetupRequired, encryptionKey,
                       tenantId, isLoaded, initPending, hasApiCreds, serverUp,
                       pending, nextId>>

UpdateBill ==
    \E id \in 1..MaxBills :
        /\ Called
        /\ LET found == FindBill(data.currentBills, id)
           IN  IF found = <<>>
               THEN UNCHANGED <<data, localStorage, db>>
               ELSE LET updatedBill == EditedBill(found[1])
                        newMeta == [data.meta EXCEPT
                            !.balances = UpdateBillBalances(@, found[1], updatedBill)]
                        newBills == [k \in DOMAIN data.currentBills |->
                            IF data.currentBills[k].id = id THEN updatedBill
                            ELSE data.currentBills[k]]
                        S1 == saveToStorage(Cur, META_KEY, newMeta, encryptionKey,
                                            isLocked, isError)
                        S2 == saveToStorage(S1, BillsKey(data.currentYear), newBills,
                                            encryptionKey, isLocked, isError)
                    IN  /\ data' = [data EXCEPT !.meta = newMeta,
                                                !.currentBills = newBills]
                        /\ localStorage' = S2.ls /\ db' = S2.db
        /\ UNCHANGED <<isLoading, isLocked, isError, isSetupRequired, encryptionKey,
                       tenantId, isLoaded, initPending, hasApiCreds, serverUp,
                       pending, nextId>>

\* loadYear.  While it awaits the load isLoading is set and App.tsx shows
\* only the spinner, so no other handler runs in between.
loadYear ==
    \E year \in {AllYears[i] : i \in DOMAIN AllYears} :
        /\ LET loaded == loadFromStorage(Cur, BillsKey(year), encryptionKey)
               safeBills == IF loaded.tag = "value" THEN loaded.value ELSE <<>>
           IN  data' = [data EXCEPT !.currentYear = year, !.currentBills = safeBills]
        /\ isLoading' = FALSE
        /\ Called
        /\ UNCHANGED <<isLocked, isError, isSetupRequired, encryptionKey, tenantId,
                       isLoaded, initPending, localStorage, db, hasApiCreds,
                       serverUp, pending, nextId>>

RECURSIVE ReencryptYears(_, _, _)
\* setPassword's loop over the other years: each is loaded with no password
\* and written back under the new one when the load returned a value
ReencryptYears(S, years, password) ==
    IF years = <<>> THEN S
    ELSE LET year == Head(years)
             loaded == loadFromStorage(S, BillsKey(year), Null)
             S1 == IF year # data.currentYear /\ loaded.tag = "value"
                   THEN Store(S, BillsKey(year), Encrypt(loaded.value, password))
                   ELSE S
         IN  ReencryptYears(S1, Tail(years), password)

\* setPassword(password, newTenantId, isSetupMode): the unlock form passes a
\* password only, the setup form a password, a group name and true
SetPassword ==
    \E password \in Passwords, newTenantId \in Tenants \cup {Null} :
        LET isSetupMode == newTenantId # Null
            ls1 == [localStorage EXCEPT
                       !.password = password,
                       !.tenant = IF newTenantId # Null THEN newTenantId ELSE @]
            S0 == [ls |-> ls1, db |-> db]
            resave == isLoaded \/ isSetupRequired \/ isSetupMode
            S1 == Store(S0, META_KEY, Encrypt(data.meta, password))
            S2 == Store(S1, BillsKey(data.currentYear),
                        Encrypt(data.currentBills, password))
            S3 == ReencryptYears(S2, data.meta.availableYears, password)
            S == IF resave THEN S3 ELSE S0
        IN  /\ Called
            /\ localStorage' = S.ls /\ db' = S.db
            /\ IF isLocked \/ isError \/ isSetupRequired \/ isSetupMode
               THEN Boot(S.ls)
               ELSE /\ encryptionKey' = password
                    /\ tenantId' = IF newTenantId # Null THEN newTenantId ELSE tenantId
                    /\ UNCHANGED <<data, isLoading, isLocked, isError, isSetupRequired,
                                   isLoaded, initPending, pending>>
            /\ UNCHANGED <<hasApiCreds, serverUp, nextId>>

RECURSIVE ImportYears(_, _, _, _)
\* importData's loop over Object.entries(importedData.bills)
ImportYears(S, years, doc, key) ==
    IF years = <<>> THEN S
    ELSE LET year == Head(years)
             S1 == IF year \in DOMAIN doc.bills
                   THEN Store(S, BillsKey(year), Pack(doc.bills[year], key))
                   ELSE S
         IN  ImportYears(S1, Tail(years), doc, key)

importData ==
    \E doc \in ImportDocs :
        /\ CalledAs([op |-> "importData", doc |-> doc,
                     returned |-> IF Importable(doc) THEN "true" ELSE ImportCaught])
        /\ IF ~Importable(doc)
           THEN UNCHANGED <<data, localStorage, db>>
           ELSE LET cleared == [password |-> encryptionKey, tenant |-> Null,
                                kv |-> EmptyKv]
                    S0 == [ls |-> cleared, db |-> db]
                    S1 == Store(S0, META_KEY, Pack(doc.meta, encryptionKey))
                    S == ImportYears(S1, AllYears, doc, encryptionKey)
                IN  /\ localStorage' = S.ls /\ db' = S.db
                    /\ data' = [meta |-> doc.meta, currentYear |-> ThisYear,
                                currentBills |-> IF ThisYear \in DOMAIN doc.bills
                                                 THEN doc.bills[ThisYear] ELSE <<>>]
        /\ UNCHANGED <<isLoading, isLocked, isError, isSetupRequired, encryptionKey,
                       tenantId, isLoaded, initPending, hasApiCreds, serverUp,
                       pending, nextId>>

\* the page is loaded again: every continuation in flight is gone
Reload ==
    /\ Called
    /\ Boot(localStorage)
    /\ UNCHANGED <<localStorage, db, hasApiCreds, serverUp, nextId>>

\* App.tsx, the Decryption Failed screen: Try Again
TryAgain ==
    /\ isError /\ ~isLoading
    /\ Called
    /\ localStorage' = [localStorage EXCEPT !.password = Null]
    /\ Boot(localStorage')
    /\ UNCHANGED <<db, hasApiCreds, serverUp, nextId>>

\* App.tsx, the Decryption Failed screen: Reset All Data
ResetAll ==
    /\ isError /\ ~isLoading
    /\ Called
    /\ localStorage' = [password |-> Null, tenant |-> Null, kv |-> EmptyKv]
    /\ Boot(localStorage')
    /\ UNCHANGED <<db, hasApiCreds, serverUp, nextId>>

\* the server becomes unreachable, or reachable again
ServerFlip ==
    /\ hasApiCreds
    /\ Called
    /\ serverUp' = ~serverUp
    /\ UNCHANGED <<data, isLoading, isLocked, isError, isSetupRequired, encryptionKey,
                   tenantId, isLoaded, initPending, localStorage, db, hasApiCreds,
                   pending, nextId>>

Next ==
    \/ (InitStore /\ UNCHANGED notStore)
    \/ (SetPassword /\ UNCHANGED notStore)
    \/ (AddHousemate /\ UNCHANGED notStore)
    \/ (RemoveHousemate /\ UNCHANGED notStore)
    \/ (UpdateHousemate /\ UNCHANGED notStore)
    \/ (AddBillCategory /\ UNCHANGED notStore)
    \/ (DeleteBillCategory /\ UNCHANGED notStore)
    \/ (UpdateBillCategory /\ UNCHANGED notStore)
    \/ (AddBill /\ UNCHANGED notStore)
    \/ (AddBillThen /\ UNCHANGED notStore)
    \/ (DeleteBill /\ UNCHANGED notStore)
    \/ (UpdateBill /\ UNCHANGED notStore)
    \/ (loadYear /\ UNCHANGED notStore)
    \/ (importData /\ UNCHANGED notStore)
    \/ (Reload /\ UNCHANGED notStore)
    \/ (TryAgain /\ UNCHANGED notStore)
    \/ (ResetAll /\ UNCHANGED notStore)
    \/ (ServerFlip /\ UNCHANGED notStore)

Spec == StoreInit /\ [][Next]_vars

(***************************************************************************)
(* Claims about the local store                                            *)
(***************************************************************************)
\* the value a load of the key would fetch cannot be opened with the password
LoadError(S, key, password) == loadFromStorage(S, key, password).tag = "ERROR"

\* the ids of the bills in a stored list, whatever it is encrypted with
StoredIds(stored) ==
    IF IsAbsent(stored) THEN {}
    ELSE LET list == IF IsPackage(stored) THEN stored.data.plain ELSE stored.value
         IN  {list[i].id : i \in DOMAIN list}

\* a step of addBill's continuation for pending[i]
ThenStep(i) == pending[i].op = "addBill" /\ pending' = RemoveAt(pending, i) /\ AddBillThen

\* C5: a load that fails to decrypt is never taken for an empty list: loadYear
\* of a loaded store does not show an empty year for a key whose load yields
\* ERROR, and
\* addBill's continuation does not replace the undecryptable value of the key.
C5_ErrorIsNotEmpty ==
    [][/\ \A year \in {AllYears[i] : i \in DOMAIN AllYears} :
            (isLoaded /\ loadYear /\ data'.currentYear = year
                /\ LoadError(Cur, BillsKey(year), encryptionKey))
            => data'.currentBills # <<>>
       /\ \A i \in DOMAIN pending :
            (ThenStep(i) /\ Interpret(pending[i].stored, pending[i].encKey).tag = "ERROR")
            => (localStorage' = localStorage /\ db' = db)]_vars

\* C6: whenever the value fetched for a key is a package, a load without a
\* password reports LOCKED; initStore, started with no saved password on a
\* package, locks the store and takes nothing from the package as data.
C6_LockedWithoutPassword ==
    /\ [](\A k \in StoreKeys :
            IsPackage(Fetched(Cur, k)) => loadFromStorage(Cur, k, Null) = [tag |-> "LOCKED"])
    /\ [][(InitStore /\ initPending[1].savedPassword = Null
              /\ IsPackage(Fetched(Cur, META_KEY)))
          => (isLocked' /\ ~isLoaded' /\ data' = data)]_vars

C6_Witness ==
    /\ isLocked /\ ~isLoaded /\ initPending = <<>>
    /\ localStorage.password = Null
    /\ IsPackage(Fetched(Cur, META_KEY))
    /\ data = initialData

LedgerMutation ==
    \/ AddHousemate \/ RemoveHousemate \/ UpdateHousemate
    \/ AddBill \/ AddBillThen \/ DeleteBill \/ UpdateBill
    \/ AddBillCategory \/ DeleteBillCategory \/ UpdateBillCategory

\* C7: while the store is locked, in the error state or not yet loaded, a
\* ledger mutation changes neither localStorage nor the server's data.
C7_BlockedWritesNothing ==
    [][(Blocked /\ LedgerMutation) => (localStorage' = localStorage /\ db' = db)]_vars

C7_Witness ==
    /\ isLocked /\ initPending = <<>>
    /\ data.meta.housemates # <<>>
    /\ IsPackage(localStorage.kv[META_KEY])
    /\ localStorage.kv[META_KEY].data.plain.housemates = <<>>

\* C8: an edit of a key never loses an earlier one: when addBill's
\* continuation has saved, the stored list of the year holds the new bill and
\* every bill that was stored under the key before.
C8_NoLostUpdate ==
    [][\A i \in DOMAIN pending :
          (ThenStep(i) /\ localStorage' # localStorage
              /\ Interpret(pending[i].stored, pending[i].encKey).tag \in {"value", "null"})
          => (StoredIds(localStorage.kv[pending[i].key]) \cup {pending[i].bill.id}
                 \subseteq StoredIds(localStorage'.kv[pending[i].key]))]_vars

\* the last call made was importData
Imported(call) == "op" \in DOMAIN call /\ call.op = "importData"

\* C16: importData of a text that is not JSON, or of a document without meta
\* or without bills, returns false (it does not throw) and leaves
\* localStorage, the server's data and the data in memory as they were.
C16_InvalidImportRejected ==
    [][(calls' # calls /\ Imported(lastCall')
            /\ ~(lastCall'.doc.json /\ {"meta", "bills"} \subseteq DOMAIN lastCall'.doc))
       => (/\ lastCall'.returned = "false"
           /\ data' = data /\ localStorage' = localStorage /\ db' = db)]_vars

\* a backup without bills was refused by a store that holds a housemate and
\* a saved meta record
C16_Witness ==
    /\ Imported(lastCall) /\ lastCall.doc = [json |-> TRUE, meta |-> initialMeta]
    /\ lastCall.returned = "false"
    /\ data.meta.housemates # <<>>
    /\ ~IsAbsent(localStorage.kv[META_KEY])

\* the bill an addBill step has added
Added ==
    IF data'.currentBills # data.currentBills THEN Head(data'.currentBills)
    ELSE pending'[Len(pending')].bill

\* the balances of d agree with those of the state before, and every
\* balance that is new is 0
SameBalances(before, after) ==
    /\ \A h \in DOMAIN before : after[h] = before[h]
    /\ \A h \in DOMAIN after \ DOMAIN before : after[h] = 0

\* C17: deleteBill(id) removes that bill alone and takes its amounts back out
\* of the balances; addBill(b) followed by deleteBill(b.id) leaves every
\* balance and the bill list as they were before the add.
C17_AddThenDeleteRestores ==
    /\ [][AddBill =>
            LET after == AfterDeleteBill(data', Added.id)
            IN  /\ after.currentBills = data.currentBills
                /\ SameBalances(data.meta.balances, after.meta.balances)]_vars
    /\ [][(DeleteBill /\ data' # data) =>
            \E i \in DOMAIN data.currentBills :
                /\ data'.currentBills = RemoveAt(data.currentBills, i)
                /\ AddBillBalances(data'.meta.balances, data.currentBills[i])
                       = data.meta.balances]_vars

\* C18: removeHousemate(id) takes the entry out of the roster and changes
\* nothing else: not the bills, not the balances (that of id included), not
\* the stored bill lists.
C18_OnlyRosterEntryRemoved ==
    [][RemoveHousemate =>
          /\ data'.meta.balances = data.meta.balances
          /\ data'.meta.billCategories = data.meta.billCategories
          /\ data'.meta.availableYears = data.meta.availableYears
          /\ data'.currentBills = data.currentBills
          /\ \A i \in DOMAIN data'.meta.housemates :
                 \E j \in DOMAIN data.meta.housemates :
                     data'.meta.housemates[i] = data.meta.housemates[j]
          /\ \A i \in DOMAIN AllYears :
                 /\ localStorage'.kv[BillsKey(AllYears[i])]
                        = localStorage.kv[BillsKey(AllYears[i])]
                 /\ \A t \in Tenants :
                        db'[t][BillsKey(AllYears[i])] = db[t][BillsKey(AllYears[i])]]_vars

\* the payer of a bill in the list was removed from the roster; the bill and
\* the payer's balance are still there
C18_Witness ==
    /\ "op" \in DOMAIN lastCall /\ lastCall.op = "removeHousemate"
    /\ data.meta.housemates = <<>>
    /\ \E i \in DOMAIN data.currentBills : data.currentBills[i].payerId = "h1"
    /\ "h1" \in DOMAIN data.meta.balances /\ data.meta.balances["h1"] = Cent

\* C19: while an encryption key is set, whatever a step writes under a key
\* of localStorage or of the server is a package {data, salt, iv}, and the
\* server receives the package localStorage received.
C19_SavesArePackages ==
    [][encryptionKey # Null =>
          \A k \in StoreKeys :
              /\ localStorage'.kv[k] # localStorage.kv[k]
                     => (IsAbsent(localStorage'.kv[k]) \/ IsPackage(localStorage'.kv[k]))
              /\ \A t \in Tenants :
                     db'[t][k] # db[t][k]
                         => (IsPackage(db'[t][k]) /\ db'[t][k] = localStorage'.kv[k])]_vars

\* a loaded store with a key, a tenant and the server has saved a roster of
\* one: localStorage and the server hold the same package of it
C19_Witness ==
    /\ encryptionKey # Null /\ isLoaded /\ hasApiCreds /\ tenantId # Null
    /\ IsPackage(localStorage.kv[META_KEY])
    /\ localStorage.kv[META_KEY].data.plain.housemates # <<>>
    /\ db[tenantId][META_KEY] = localStorage.kv[META_KEY]

\* what the server holds under the key for the tenant of this browser, when
\* it can be asked and answers
Remote(k) ==
    IF hasApiCreds /\ localStorage.tenant # Null /\ serverUp
    THEN db[localStorage.tenant][k] ELSE Absent

\* C20: a load takes the server's value when the server returns one and the
\* value of localStorage otherwise; a key the server does not hold and a call
\* that fails count as no value; the load returns null exactly when neither
\* has a value.
C20_RemoteFirstThenLocal ==
    \A k \in StoreKeys :
        /\ Fetched(Cur, k) = IF IsAbsent(Remote(k)) THEN localStorage.kv[k] ELSE Remote(k)
        /\ \A password \in Passwords \cup {Null} :
               /\ loadFromStorage(Cur, k, password).tag \in {"null", "LOCKED", "ERROR", "value"}
               /\ loadFromStorage(Cur, k, password).tag = "null"
                      <=> (IsAbsent(Remote(k)) /\ IsAbsent(localStorage.kv[k]))

\* the server holds a meta record but cannot be reached, localStorage holds a
\* later one, and that is what a load fetches
C20_Witness ==
    /\ hasApiCreds /\ ~serverUp /\ localStorage.tenant # Null
    /\ ~IsAbsent(db[localStorage.tenant][META_KEY])
    /\ ~IsAbsent(localStorage.kv[META_KEY])
    /\ db[localStorage.tenant][META_KEY] # localStorage.kv[META_KEY]
    /\ Fetched(Cur, META_KEY) = localStorage.kv[META_KEY]

RECURSIVE SplitTotal(_, _)
\* the split amounts of the housemate h
SplitTotal(sp, h) ==
    IF sp = <<>> THEN 0
    ELSE (IF Head(sp).housemateId = h THEN Head(sp).amount ELSE 0)
             + SplitTotal(Tail(sp), h)

\* C22: addBill(b) adds b.amount to the payer's balance and takes each
\* split's amount from its housemate's balance, a missing balance counting
\* as 0; no other balance changes; the year of b is among the available
\* years, and a bill of the loaded year is in the list.
C22_AddBillEffect ==
    [][AddBill =>
          LET b == Added
              old == data.meta.balances
              new == data'.meta.balances
          IN  /\ DOMAIN new = DOMAIN old \cup {b.payerId}
                                 \cup {b.splits[i].housemateId : i \in DOMAIN b.splits}
              /\ \A h \in DOMAIN new :
                     new[h] = Plus(Bal(old, h),
                                   (IF h = b.payerId THEN b.amount ELSE 0)
                                       - SplitTotal(b.splits, h))
              /\ HasYear(data'.meta.availableYears, b.date)
              /\ b.date = data.currentYear
                     => (\E i \in DOMAIN data'.currentBills : data'.currentBills[i] = b)]_vars

\* the first bill, of the loaded year, was added for a housemate with a
\* balance of 0
C22_Witness ==
    /\ nextId = 2 /\ data.currentBills = <<NewBill(1, data.currentYear)>>
    /\ data.meta.housemates # <<>>
    /\ data.meta.balances = [h \in {"h1", "h2"} |-> IF h = "h1" THEN Cent ELSE -Cent]

\* C23: updateBill of a bill in the list gives the balances that deleteBill
\* of it followed by addBill of the new bill gives, puts the new bill in the
\* place of the old one and leaves the other bills; with no bill of that id
\* nothing changes.
C23_UpdateIsDeleteThenAdd ==
    [][UpdateBill =>
          \E id \in 1..MaxBills :
              LET found == FindBill(data.currentBills, id)
              IN  IF found = <<>>
                  THEN data' = data /\ localStorage' = localStorage /\ db' = db
                  ELSE /\ data'.meta.balances =
                              AddBillBalances(AfterDeleteBill(data, id).meta.balances,
                                              EditedBill(found[1]))
                       /\ Len(data'.currentBills) = Len(data.currentBills)
                       /\ \A k \in DOMAIN data.currentBills :
                              data'.currentBills[k] =
                                  IF data.currentBills[k].id = id
                                  THEN EditedBill(found[1]) ELSE data.currentBills[k]
                       /\ EditedBill(found[1]).id = id]_vars

\* the second of two bills in the list was edited: amount 4.00 paid by h2
C23_Witness ==
    /\ Len(data.currentBills) = 2
    /\ data.currentBills[2] = EditedBill(NewBill(1, data.currentYear))
    /\ data.currentBills[1] = NewBill(2, data.currentYear)
    /\ data.meta.balances = [h \in {"h1", "h2"} |-> IF h = "h1" THEN -Cent ELSE Cent]

\* C28: a load after a save returns what was saved: whenever localStorage
\* holds a value under a key, which is what the last save of the key wrote,
\* that value is the one a load fetches.
C28_ReadYourWrites ==
    \A k \in StoreKeys :
        ~IsAbsent(localStorage.kv[k]) => Fetched(Cur, k) = localStorage.kv[k]

\* C30: importData that returned true has kept the tenant id in
\* localStorage, and with credentials and the server up the server holds the
\* imported meta record for that tenant.
C30_ImportKeepsTenant ==
    [][(calls' # calls /\ Imported(lastCall') /\ lastCall'.returned = "true") =>
          /\ localStorage'.tenant = localStorage.tenant
          /\ localStorage'.password = encryptionKey
          /\ (hasApiCreds /\ serverUp /\ localStorage.tenant # Null)
                 => db'[localStorage.tenant][META_KEY] = localStorage'.kv[META_KEY]]_vars

(***************************************************************************)
(* store/useStore.tsx: the sheet-backed store                              *)
(*                                                                         *)
(* A sheet is a sequence of rows and a row a sequence of cells.  The       *)
(* values API returns every cell as text; the model keeps, for each cell,  *)
(* whether Number() reads the text as a number: [n |-> x] is the text of   *)
(* the number x and [s |-> t] any other text.                              *)
(***************************************************************************)
MaxLoads == 3

MaxRows == 2

Num(x) == [n |-> x]

Str(t) == [s |-> t]

Undefined == [u |-> TRUE]

\* row[j - 1] of the source: the model's indices start at 1
Cell(row, j) == IF j <= Len(row) THEN row[j] ELSE Undefined

IsNum(c) == "n" \in DOMAIN c

\* Number(c): NaN for undefined and for text that is not a number, 0 for ""
ToNumber(c) ==
    IF IsNum(c) THEN c.n
    ELSE IF "s" \in DOMAIN c /\ c.s = "" THEN 0
    ELSE NaN

\* !!c
Truthy(c) == IF IsNum(c) THEN TRUE ELSE "s" \in DOMAIN c /\ c.s # ""

Text(c) == IF "s" \in DOMAIN c THEN c.s ELSE ""

\* getYearFromMonth, on the texts the model uses
getYearFromMonth(raw) ==
    IF raw \in {"January 2025", "2025-01"} THEN "2025"
    ELSE IF raw \in {"January 2024", "2024-01"} THEN "2024"
    ELSE ""

RECURSIVE parseHistoryBills(_)
parseHistoryBills(rows) ==
    IF rows = <<>> THEN <<>>
    ELSE LET row == Head(rows)
             amt == ToNumber(Cell(row, 5))
         IN  (IF amt = NaN THEN <<>>
              ELSE <<[id |-> Text(Cell(row, 8)), title |-> Text(Cell(row, 3)),
                      amount |-> amt, payerId |-> "SYSTEM", splits |-> <<>>,
                      billingMonth |-> Text(Cell(row, 2)),
                      categoryId |-> Text(Cell(row, 3))]>>)
             \o parseHistoryBills(Tail(rows))

RECURSIVE ManualRowBills(_, _, _, _)
\* housemateNames.forEach((name, colIndex) => ...) for one row
ManualRowBills(row, rowIndex, names, colIndex) ==
    IF colIndex > Len(names) THEN <<>>
    ELSE LET amountStr == Cell(row, colIndex + 2)
             amt == ToNumber(amountStr)
         IN  (IF Truthy(amountStr) /\ amt # NaN /\ amt > 0
              THEN <<[id |-> "manual-" \o ToString(rowIndex - 1) \o "-"
                             \o ToString(colIndex - 1),
                      title |-> Text(Cell(row, 2)), amount |-> amt,
                      payerId |-> Text(names[colIndex]), splits |-> <<>>,
                      billingMonth |-> Text(Cell(row, 1)),
                      categoryId |-> Text(Cell(row, 2))]>>
              ELSE <<>>)
             \o ManualRowBills(row, rowIndex, names, colIndex + 1)

RECURSIVE ManualRowsBills(_, _, _)
ManualRowsBills(rows, rowIndex, names) ==
    IF rowIndex > Len(rows) THEN <<>>
    ELSE ManualRowBills(rows[rowIndex], rowIndex, names, 1)
         \o ManualRowsBills(rows, rowIndex + 1, names)

parseManualBills(rows) ==
    IF Len(rows) < 2 THEN <<>>
    ELSE ManualRowsBills(Tail(rows), 1, SubSeq(rows[1], 3, Len(rows[1])))

\* formatBill: the row addBill appends to the ManualBills sheet
formatBill(bill) ==
    <<Str(bill.id), Str(bill.title), Num(bill.amount), Str(bill.payerId),
      Str(bill.date), Str("equal"), Str("splits"), Str(bill.date),
      Str(bill.billingMonth), Str(bill.categoryId), Str("bill")>>

RECURSIVE SheetHousemates(_, _)
\* the rows of the Housemates sheet below its header that have a name
SheetHousemates(rows, index) ==
    IF index > Len(rows) THEN <<>>
    ELSE (IF Truthy(Cell(rows[index], 1))
          THEN <<[id |-> Text(rows[index][1]), name |-> Text(rows[index][1]),
                  rowIndex |-> index]>>
          ELSE <<>>) \o SheetHousemates(rows, index + 1)

RECURSIVE HeaderHousemates(_, _)
\* the names of the ManualBills header that the roster does not have yet
HeaderHousemates(names, known) ==
    IF names = <<>> THEN <<>>
    ELSE LET name == Text(Head(names))
         IN  IF name # "" /\ name \notin known
             THEN <<[id |-> name, name |-> name]>>
                  \o HeaderHousemates(Tail(names), known \cup {name})
             ELSE HeaderHousemates(Tail(names), known)

\* what loadData computes from the ranges it fetched
LoadResult(sh) ==
    LET listed == SheetHousemates(sh.Housemates, 2)
        manualRows == sh.ManualBills
        fromHeader == IF manualRows = <<>> THEN <<>>
                      ELSE HeaderHousemates(SubSeq(manualRows[1], 3, Len(manualRows[1])),
                                            {listed[i].name : i \in DOMAIN listed})
        allBills == parseHistoryBills(sh.BillHistories) \o parseManualBills(manualRows)
        years == {getYearFromMonth(allBills[i].billingMonth) : i \in DOMAIN allBills}
                     \ {""}
        \* Array.from(yearsSet).sort().reverse()
        availableYears == SelectSeq(<<AllYears[2], AllYears[1]>>, LAMBDA y : y \in years)
        activeYear == IF availableYears # <<>> /\ ThisYear \notin years
                      THEN availableYears[1] ELSE ThisYear
    IN  [meta |-> [housemates |-> listed \o fromHeader,
                   balances |-> <<>>,
                   availableYears |-> IF availableYears # <<>> THEN availableYears
                                      ELSE <<ThisYear>>],
         currentYear |-> activeYear,
         currentBills |-> SelectSeq(allBills,
             LAMBDA b : getYearFromMonth(b.billingMonth) = activeYear)]

SheetIds == {"sheet1"}

sheetInitialMeta == [housemates |-> <<>>, balances |-> <<>>,
                     availableYears |-> <<ThisYear>>]

sheetInitialData ==
    [meta |-> sheetInitialMeta, currentYear |-> ThisYear, currentBills |-> <<>>]

\* the spreadsheet before the application writes to it: the header rows
HeaderRows ==
    [Housemates |-> <<<<Str("Name")>>>>,
     ManualBills |-> <<<<Str("Month"), Str("Vendor"), Str("Ann")>>>>,
     BillHistories |-> <<<<Str("Timestamp"), Str("Month"), Str("Vendor"),
                          Str("Subject"), Str("Amount"), Str("Manual"),
                          Str("Status"), Str("ID")>>>>]

RowsAdded == Len(sheets.Housemates) + Len(sheets.ManualBills)
                 + Len(sheets.BillHistories) - 3

\* GoogleSheetsService.appendValues
appendValues(sh, sheetName, row) ==
    [sh EXCEPT ![sheetName] = Append(@, row)]

\* the bill the entry form passes to addBill
NewSheetBills ==
    {[id |-> "u1", title |-> "Gas", amount |-> 2 * Cent, payerId |-> "Ann",
      date |-> "2025-01-05", billingMonth |-> "2025-01", categoryId |-> "others",
      splits |-> <<[housemateId |-> "Ann", amount |-> Cent],
                   [housemateId |-> "Bob", amount |-> Cent]>>]}

\* the rows the mail script logs to BillHistories
Transactions ==
    {[month |-> "January 2025", vendor |-> "Power", total |-> 3 * Cent, id |-> "m1"]}

\* loadData up to its first await: a request is in flight, not yet served
StartLoad(token, silent, sync) ==
    IF ~token
    THEN UNCHANGED <<sheetLoading, loads, started>>
    ELSE /\ sheetLoading' = IF silent THEN sheetLoading ELSE TRUE
         /\ started' = started + 1
         /\ loads' = Append(loads, [seq |-> started + 1, sync |-> sync,
                                    served |-> FALSE, values |-> <<>>])

\* the effect on [accessToken, spreadsheetId]
MountEffect(token, id) ==
    IF token /\ id # Null
    THEN IF sheetData.currentBills # <<>> \/ sheetData.meta.housemates # <<>>
         THEN sheetLoading' = FALSE /\ UNCHANGED <<loads, started>>
         ELSE StartLoad(token, FALSE, FALSE)
    ELSE sheetLoading' = FALSE /\ UNCHANGED <<loads, started>>

handleLoginSuccess ==
    /\ ~loggedIn
    /\ loggedIn' = TRUE
    /\ started < MaxLoads
    /\ MountEffect(TRUE, spreadsheetId)
    /\ UNCHANGED <<sheetData, spreadsheetId, isSyncing, sheetError, sheets,
                   shown, newest>>

setSheetId ==
    \E id \in SheetIds :
        /\ spreadsheetId = Null
        /\ spreadsheetId' = id
        /\ started < MaxLoads
        /\ MountEffect(loggedIn, id)
        /\ UNCHANGED <<sheetData, loggedIn, isSyncing, sheetError, sheets,
                       shown, newest>>

\* syncData, which the ten-minute timer calls while no sync is running
syncData ==
    /\ spreadsheetId # Null /\ loggedIn /\ ~isSyncing
    /\ started < MaxLoads
    /\ isSyncing' = TRUE
    /\ StartLoad(loggedIn, TRUE, TRUE)
    /\ UNCHANGED <<sheetData, spreadsheetId, loggedIn, sheetError, sheets,
                   shown, newest>>

\* the spreadsheet serves batchGetValues of one load in flight
BatchGetValues ==
    \E i \in DOMAIN loads :
        /\ ~loads[i].served
        /\ loads' = [loads EXCEPT ![i] = [@ EXCEPT !.served = TRUE,
                                                  !.values = sheets]]
        /\ UNCHANGED <<sheetData, spreadsheetId, loggedIn, sheetLoading,
                       isSyncing, sheetError, sheets, started, shown, newest>>

\* loadData from the response to its end
LoadDataDone ==
    \E i \in DOMAIN loads :
        /\ loads[i].served
        /\ sheetData' = LoadResult(loads[i].values)
        /\ sheetError' = FALSE
        /\ sheetLoading' = FALSE
        /\ isSyncing' = IF loads[i].sync THEN FALSE ELSE isSyncing
        /\ loads' = RemoveAt(loads, i)
        /\ shown' = loads[i].seq
        /\ newest' = IF loads[i].seq > newest THEN loads[i].seq ELSE newest
        /\ UNCHANGED <<spreadsheetId, loggedIn, sheets, started>>

\* loadData's catch: a request of the load failed
LoadDataFail ==
    \E i \in DOMAIN loads, errorType \in {"API", "AUTH"} :
        /\ sheetError' = TRUE
        /\ loggedIn' = IF errorType = "AUTH" THEN FALSE ELSE loggedIn
        /\ sheetLoading' = FALSE
        /\ isSyncing' = IF loads[i].sync THEN FALSE ELSE isSyncing
        /\ loads' = RemoveAt(loads, i)
        /\ UNCHANGED <<sheetData, spreadsheetId, sheets, started, shown, newest>>

\* addBill of the sheet store
SheetAddBill ==
    \E bill \in NewSheetBills :
        /\ spreadsheetId # Null
        /\ ~sheetLoading
        /\ RowsAdded < MaxRows /\ Len(sheetData.currentBills) < MaxRows
        /\ LET billYear == getYearFromMonth(bill.billingMonth)
               years == sheetData.meta.availableYears
           IN  sheetData' =
                 [sheetData EXCEPT
                    !.meta.balances = AddBillBalances(@, bill),
                    !.meta.availableYears =
                        IF HasYear(years, billYear) THEN years
                        ELSE SortedYears(Append(years, billYear)),
                    !.currentBills = Append(@, bill)]
        /\ sheets' = IF loggedIn
                     THEN appendValues(sheets, "ManualBills", formatBill(bill))
                     ELSE sheets
        /\ UNCHANGED <<spreadsheetId, loggedIn, sheetLoading, isSyncing,
                       sheetError, loads, started, shown, newest>>

\* addHousemate of the sheet store
SheetAddHousemate ==
    \E name \in NewNames :
        /\ spreadsheetId # Null /\ loggedIn
        /\ ~sheetLoading
        /\ RowsAdded < MaxRows /\ started < MaxLoads
        /\ sheets' = appendValues(sheets, "Housemates", <<Str(name)>>)
        /\ StartLoad(loggedIn, FALSE, FALSE)
        /\ UNCHANGED <<sheetData, spreadsheetId, loggedIn, isSyncing,
                       sheetError, shown, newest>>

addManualBill ==
    \E month \in {"January 2025"}, vendor \in {"Water"}, share \in {Cent} :
        /\ spreadsheetId # Null /\ loggedIn
        /\ ~sheetLoading
        /\ RowsAdded < MaxRows /\ started < MaxLoads
        /\ sheets' = appendValues(sheets, "ManualBills",
                                  <<Str(month), Str(vendor), Num(share)>>)
        /\ StartLoad(loggedIn, FALSE, FALSE)
        /\ UNCHANGED <<sheetData, spreadsheetId, loggedIn, isSyncing,
                       sheetError, shown, newest>>

\* AutomatedBillProcessor.gs logs an ingested bill to BillHistories
logTransactions ==
    \E b \in Transactions :
        /\ RowsAdded < MaxRows
        /\ sheets' = appendValues(sheets, "BillHistories",
               <<Str("now"), Str(b.month), Str(b.vendor), Str("subject"),
                 Num(b.total), Str(""), Str("Ingested"), Str(b.id)>>)
        /\ UNCHANGED <<sheetData, spreadsheetId, loggedIn, sheetLoading,
                       isSyncing, sheetError, loads, started, shown, newest>>

SheetInit ==
    /\ sheetData = sheetInitialData
    /\ spreadsheetId = Null
    /\ loggedIn = FALSE
    /\ sheetLoading = FALSE
    /\ isSyncing = FALSE
    /\ sheetError = FALSE
    /\ sheets = HeaderRows
    /\ loads = <<>>
    /\ started = 0
    /\ shown = 0
    /\ newest = 0
    /\ SettleIdle /\ FetchIdle /\ FormIdle /\ StoreIdle /\ CryptoIdle /\ ServerIdle /\ ScriptIdle /\ PinIdle

SheetNext ==
    \/ (handleLoginSuccess /\ UNCHANGED notSheet)
    \/ (setSheetId /\ UNCHANGED notSheet)
    \/ (syncData /\ UNCHANGED notSheet)
    \/ (BatchGetValues /\ UNCHANGED notSheet)
    \/ (LoadDataDone /\ UNCHANGED notSheet)
    \/ (LoadDataFail /\ UNCHANGED notSheet)
    \/ (SheetAddBill /\ UNCHANGED notSheet)
    \/ (SheetAddHousemate /\ UNCHANGED notSheet)
    \/ (addManualBill /\ UNCHANGED notSheet)
    \/ (logTransactions /\ UNCHANGED notSheet)

SpecSheet == SheetInit /\ [][SheetNext]_vars

RECURSIVE FoldBills(_, _)
\* the balances that replaying a list of bills from zero gives
FoldBills(b, billList) ==
    IF billList = <<>> THEN b
    ELSE FoldBills(AddBillBalances(b, Head(billList)), Tail(billList))

\* C1: at every moment, each housemate's stored balance is what replaying the
\* bills of the ledger from zero gives (payer +amount, each split -amount).
C1_BalancesAreFold ==
    \A id \in DOMAIN sheetData.meta.balances
              \cup DOMAIN FoldBills(<<>>, sheetData.currentBills) :
        Bal(sheetData.meta.balances, id)
            = Bal(FoldBills(<<>>, sheetData.currentBills), id)

\* C9: a load that arrives after a load started later has completed leaves
\* the state alone: the state keeps the newer load's result.
C9_StaleDiscarded ==
    [][\A i \in DOMAIN loads :
          (loads[i].served /\ loads[i].seq < newest /\ loads' = RemoveAt(loads, i)
           /\ sheetError' = FALSE /\ shown' = loads[i].seq)
          => sheetData' = sheetData]_vars

(***************************************************************************)
(* LoginScreen.tsx: CryptoService                                          *)
(*                                                                         *)
(* Strings are sequences of UTF-16 code units, buffers are sequences of    *)
(* bytes, and base64 text is a sequence of symbols: 0..63 for the          *)
(* alphabet, Pad for '=' and Bad for a character outside the alphabet.     *)
(***************************************************************************)
SALT_LENGTH == 16

IV_LENGTH == 12

\* AES-GCM appends its authentication tag (128 bits by default) to the output
TAG_LENGTH == 16

Pad == 64

Bad == 65

IsHigh(u) == u >= 55296 /\ u <= 56319

IsLow(u) == u >= 56320 /\ u <= 57343

RECURSIVE TextEncode(_)
\* new TextEncoder().encode(s): UTF-8; an unpaired surrogate becomes U+FFFD
TextEncode(s) ==
    IF s = <<>> THEN <<>>
    ELSE LET u == Head(s)
         IN  IF u < 128 THEN <<u>> \o TextEncode(Tail(s))
             ELSE IF u < 2048
             THEN <<192 + (u \div 64), 128 + (u % 64)>> \o TextEncode(Tail(s))
             ELSE IF IsHigh(u) /\ Len(s) >= 2 /\ IsLow(s[2])
             THEN LET cp == 65536 + (u - 55296) * 1024 + (s[2] - 56320)
                  IN  <<240 + (cp \div 262144), 128 + ((cp \div 4096) % 64),
                        128 + ((cp \div 64) % 64), 128 + (cp % 64)>>
                      \o TextEncode(Tail(Tail(s)))
             ELSE IF IsHigh(u) \/ IsLow(u)
             THEN <<239, 191, 189>> \o TextEncode(Tail(s))
             ELSE <<224 + (u \div 4096), 128 + ((u \div 64) % 64), 128 + (u % 64)>>
                  \o TextEncode(Tail(s))

IsCont(b, i) == i <= Len(b) /\ b[i] >= 128 /\ b[i] <= 191

RECURSIVE Utf8Decode(_)
\* the UTF-8 decoder: a byte that starts no valid sequence becomes U+FFFD
Utf8Decode(b) ==
    IF b = <<>> THEN <<>>
    ELSE LET x == Head(b)
             two == (x - 192) * 64 + (b[2] - 128)
             three == (x - 224) * 4096 + (b[2] - 128) * 64 + (b[3] - 128)
             four == (x - 240) * 262144 + (b[2] - 128) * 4096
                         + (b[3] - 128) * 64 + (b[4] - 128)
         IN  IF x < 128 THEN <<x>> \o Utf8Decode(Tail(b))
             ELSE IF x >= 194 /\ x <= 223 /\ IsCont(b, 2)
             THEN <<two>> \o Utf8Decode(SubSeq(b, 3, Len(b)))
             ELSE IF x >= 224 /\ x <= 239 /\ IsCont(b, 2) /\ IsCont(b, 3)
                     /\ three >= 2048 /\ ~IsHigh(three) /\ ~IsLow(three)
             THEN <<three>> \o Utf8Decode(SubSeq(b, 4, Len(b)))
             ELSE IF x >= 240 /\ x <= 244 /\ IsCont(b, 2) /\ IsCont(b, 3)
                     /\ IsCont(b, 4) /\ four >= 65536 /\ four <= 1114111
             THEN <<55296 + ((four - 65536) \div 1024),
                    56320 + ((four - 65536) % 1024)>>
                  \o Utf8Decode(SubSeq(b, 5, Len(b)))
             ELSE <<65533>> \o Utf8Decode(Tail(b))

TextDecode_Bytes(b) == b

\* new TextDecoder().decode(buffer): UTF-8, and a leading byte order mark
\* (U+FEFF) is dropped (ignoreBOM is false by default)
TextDecode(b) ==
    LET units == Utf8Decode(b)
    IN  IF units # <<>> /\ Head(units) = 65279 THEN Tail(units) ELSE units

RECURSIVE btoa(_)
\* arrayBufferToBase64: window.btoa of the bytes
btoa(b) ==
    IF b = <<>> THEN <<>>
    ELSE IF Len(b) = 1
    THEN <<b[1] \div 4, (b[1] % 4) * 16, Pad, Pad>>
    ELSE IF Len(b) = 2
    THEN <<b[1] \div 4, (b[1] % 4) * 16 + (b[2] \div 16), (b[2] % 16) * 4, Pad>>
    ELSE <<b[1] \div 4, (b[1] % 4) * 16 + (b[2] \div 16),
           (b[2] % 16) * 4 + (b[3] \div 64), b[3] % 64>>
         \o btoa(SubSeq(b, 4, Len(b)))

RECURSIVE Sextets(_)
\* the bytes of a run of alphabet symbols; the bits left over are discarded
Sextets(t) ==
    IF Len(t) < 2 THEN <<>>
    ELSE IF Len(t) = 2 THEN <<t[1] * 4 + (t[2] \div 16)>>
    ELSE IF Len(t) = 3
    THEN <<t[1] * 4 + (t[2] \div 16), (t[2] % 16) * 16 + (t[3] \div 4)>>
    ELSE <<t[1] * 4 + (t[2] \div 16), (t[2] % 16) * 16 + (t[3] \div 4),
           (t[3] % 4) * 64 + t[4]>>
         \o Sextets(SubSeq(t, 5, Len(t)))

\* window.atob (forgiving-base64 decode): one or two '=' are dropped from the
\* end of a text whose length is a multiple of 4; then a length of 4n+1 or a
\* character outside the alphabet is an InvalidCharacterError
atob(t) ==
    LET n == Len(t)
        cut == IF n % 4 = 0 /\ n > 0 /\ t[n] = Pad
               THEN (IF t[n - 1] = Pad THEN 2 ELSE 1) ELSE 0
        rest == SubSeq(t, 1, n - cut)
    IN  IF Len(rest) % 4 = 1 \/ \E i \in DOMAIN rest : rest[i] > 63
        THEN [ok |-> FALSE]
        ELSE [ok |-> TRUE, bytes |-> Sextets(rest)]

\* String(undefined), which atob receives for a field the package lacks
TextUndefined == <<46, 39, 29, 30, 31, 34, 39, 30, 29>>

RECURSIVE HmacKey(_)
\* PBKDF2 uses the password as the key of HMAC-SHA-256, which pads a key
\* shorter than its 64-byte block with zero bytes: trailing zero bytes of the
\* password do not change the key derived
HmacKey(b) ==
    IF b # <<>> /\ b[Len(b)] = 0 THEN HmacKey(SubSeq(b, 1, Len(b) - 1)) ELSE b

deriveKey_NoSalt(password, salt) ==
    [material |-> HmacKey(TextEncode(password)), salt |-> <<>>]

\* deriveKey(password, salt, usage)
deriveKey(password, salt) ==
    [material |-> HmacKey(TextEncode(password)), salt |-> salt]

\* the output of crypto.subtle.encrypt: as many bytes as the plaintext has,
\* then the tag; the program never looks into them
Seal(key, iv, pt) ==
    [i \in 1..Len(pt) |-> (pt[i] + 1) % 256] \o [i \in 1..TAG_LENGTH |-> 7]

\* crypto.subtle.decrypt: the plaintext when key, iv and input are those of
\* an encryption made, an OperationError otherwise
Open(sealed, key, iv, ct) ==
    IF \E e \in sealed : e.key = key /\ e.iv = iv /\ e.ct = ct
    THEN [ok |-> TRUE,
          bytes |-> (CHOOSE e \in sealed : e.key = key /\ e.iv = iv /\ e.ct = ct).pt]
    ELSE [ok |-> FALSE]

\* CryptoService.encrypt(data, password) with the random salt and iv drawn;
\* the result is the JSON text of the package
encrypt(d, password, salt, iv) ==
    LET key == deriveKey(password, salt)
        encodedData == TextEncode(d)
    IN  [sealed |-> [key |-> key, iv |-> iv, pt |-> encodedData,
                     ct |-> Seal(key, iv, encodedData)],
         text |-> [text |-> [data |-> btoa(Seal(key, iv, encodedData)),
                             salt |-> btoa(salt), iv |-> btoa(iv)]]]

\* pkg[f] as atob receives it
Field(pkg, f) == IF f \in DOMAIN pkg THEN pkg[f] ELSE TextUndefined

Uniform == "Invalid password or corrupted data"

Thrown_Raw(inner) == [tag |-> "throw", error |-> inner, inner |-> inner]

\* catch (error) { throw new Error('Invalid password or corrupted data') }
Thrown(inner) == [tag |-> "throw", error |-> Uniform, inner |-> inner]

\* CryptoService.decrypt(encryptedPackage, password)
decrypt(sealed, encryptedPackage, password) ==
    LET isText == "text" \in DOMAIN encryptedPackage
        parsed == IF isText THEN encryptedPackage.text ELSE encryptedPackage
        salt == atob(Field(parsed, "salt"))
        iv == atob(Field(parsed, "iv"))
        encryptedData == atob(Field(parsed, "data"))
        opened == Open(sealed, deriveKey(password, salt.bytes), iv.bytes,
                       encryptedData.bytes)
    IN  IF isText /\ "malformed" \in DOMAIN parsed THEN Thrown("SyntaxError")
        ELSE IF "null" \in DOMAIN parsed THEN Thrown("TypeError")
        ELSE IF ~salt.ok \/ ~iv.ok \/ ~encryptedData.ok
        THEN Thrown("InvalidCharacterError")
        ELSE IF ~opened.ok THEN Thrown("OperationError")
        ELSE [tag |-> "value", value |-> TextDecode(opened.bytes)]

\* the kinds of failure one run of the model collects before it stops retrying
MaxDecrypts == 2

\* the strings handed to encrypt: empty, ASCII, two- and three-byte
\* characters, a surrogate pair, an unpaired surrogate, a leading U+FEFF
CryptoStrings ==
    {<<>>, <<97>>, <<233, 97>>, <<8364>>, <<55357, 56832>>, <<55357>>, <<65279, 97>>}

\* "p1", "p2" and "p1" followed by U+0000
CryptoPasswords == {<<112, 49>>, <<112, 50>>, <<112, 49, 0>>}

\* crypto.getRandomValues(new Uint8Array(n))
Salts == {[i \in 1..SALT_LENGTH |-> 17], [i \in 1..SALT_LENGTH |-> 200]}

Ivs == {[i \in 1..IV_LENGTH |-> 5]}

PackageFields == {"data", "salt", "iv"}

\* the object a package, text or parsed, holds
Inner(package) == IF "text" \in DOMAIN package THEN package.text ELSE package

WithInner(package, obj) ==
    IF "text" \in DOMAIN package THEN [text |-> obj] ELSE obj

IsWhole(package) == PackageFields \subseteq DOMAIN Inner(package)

CryptoInit ==
    /\ cData = <<>> /\ cPassword = <<>> /\ cSealed = {} /\ cOriginal = <<>>
    /\ cPackage = <<>> /\ cResult = <<>> /\ cInner = {} /\ cStep = "start"
    /\ SettleIdle /\ FetchIdle /\ FormIdle /\ StoreIdle /\ SheetIdle /\ ServerIdle /\ ScriptIdle /\ PinIdle

\* a caller encrypts a string
EncryptCall ==
    \E d \in CryptoStrings, password \in CryptoPasswords, salt \in Salts, iv \in Ivs :
        LET r == encrypt(d, password, salt, iv)
        IN  /\ cStep = "start"
            /\ cData' = d
            /\ cPassword' = password
            /\ cSealed' = {r.sealed}
            /\ cOriginal' = r.text.text
            /\ cPackage' = r.text
            /\ cStep' = "encrypted"
            /\ UNCHANGED <<cResult, cInner>>

\* JSON.parse(encrypted): the caller keeps the package as an object
ParsePackage ==
    /\ cStep = "encrypted"
    /\ "text" \in DOMAIN cPackage /\ IsWhole(cPackage)
    /\ cPackage' = cPackage.text
    /\ UNCHANGED <<cData, cPassword, cSealed, cOriginal, cResult, cInner, cStep>>

\* one character of one field of the stored package is replaced
ChangeSymbol ==
    /\ cStep = "encrypted"
    /\ \E f \in PackageFields :
      \E i \in DOMAIN Inner(cPackage)[f] :
        \E new \in {(Inner(cPackage)[f][i] + 1) % 64, Bad} :
            /\ cPackage' = WithInner(cPackage,
                              [Inner(cPackage) EXCEPT ![f][i] = new])
            /\ cStep' = "changed"
            /\ UNCHANGED <<cData, cPassword, cSealed, cOriginal, cResult, cInner>>

\* the stored package loses a field
DropField ==
    \E f \in PackageFields :
        /\ cStep = "encrypted"
        /\ cPackage' = WithInner(cPackage,
                          [g \in PackageFields \ {f} |-> Inner(cPackage)[g]])
        /\ cStep' = "changed"
        /\ UNCHANGED <<cData, cPassword, cSealed, cOriginal, cResult, cInner>>

\* the stored text is cut short, or holds null
BreakText ==
    \E broken \in {[text |-> [malformed |-> TRUE]], [text |-> [null |-> TRUE]],
                   [null |-> TRUE]} :
        /\ cStep = "encrypted"
        /\ cPackage' = broken
        /\ cStep' = "changed"
        /\ UNCHANGED <<cData, cPassword, cSealed, cOriginal, cResult, cInner>>

\* a caller decrypts what it holds
DecryptCall ==
    \E password \in CryptoPasswords :
        LET r == decrypt(cSealed, cPackage, password)
        IN  /\ cStep \in {"encrypted", "changed"}
            /\ cResult' = [r EXCEPT !.tag = @] @@ [password |-> password]
            /\ cInner' = IF r.tag = "throw" THEN cInner \cup {r.inner} ELSE cInner
            /\ cStep' = "decrypted"
            /\ UNCHANGED <<cData, cPassword, cSealed, cOriginal, cPackage>>

\* the caller goes back to the package encrypt returned
DecryptAgain ==
    /\ cStep = "decrypted"
    /\ Cardinality(cInner) < MaxDecrypts
    /\ cResult.tag = "throw"
    /\ cPackage' = [text |-> cOriginal]
    /\ cResult' = <<>>
    /\ cStep' = "encrypted"
    /\ UNCHANGED <<cData, cPassword, cSealed, cOriginal, cInner>>

CryptoNext ==
    \/ (EncryptCall /\ UNCHANGED notCrypto)
    \/ (ParsePackage /\ UNCHANGED notCrypto)
    \/ (ChangeSymbol /\ UNCHANGED notCrypto)
    \/ (DropField /\ UNCHANGED notCrypto)
    \/ (BreakText /\ UNCHANGED notCrypto)
    \/ (DecryptCall /\ UNCHANGED notCrypto)
    \/ (DecryptAgain /\ UNCHANGED notCrypto)

SpecCrypto == CryptoInit /\ [][CryptoNext]_vars

\* the caller decrypts with the password the package was encrypted with
SamePassword == cResult.password = cPassword

\* the bytes a field of the package decodes to, or the reason it has none
FieldBytes(obj, f) ==
    IF f \notin DOMAIN obj THEN [ok |-> FALSE] ELSE atob(obj[f])

\* the package holds the ciphertext, salt and nonce encrypt produced
SameBytes ==
    /\ IsWhole(cPackage)
    /\ \A f \in PackageFields :
           FieldBytes(Inner(cPackage), f) = FieldBytes(cOriginal, f)

\* C11: decrypt(encrypt(s, p), p) returns s, for the package passed as the
\* JSON text encrypt produced and for the package passed as the parsed object
C11_RoundTrip ==
    (cStep = "decrypted" /\ Inner(cPackage) = cOriginal /\ SamePassword)
        => (cResult.tag = "value" /\ cResult.value = cData)

\* no unpaired surrogate in the string
WellFormed(t) ==
    \A i \in DOMAIN t :
        /\ IsHigh(t[i]) => (i < Len(t) /\ IsLow(t[i + 1]))
        /\ IsLow(t[i]) => (i > 1 /\ IsHigh(t[i - 1]))

\* C11 (amended): decrypt of the untouched package, as text or as object,
\* with the password of the encryption returns the string as TextEncoder and
\* TextDecoder carry it: the string itself when it is well-formed UTF-16 and
\* does not begin with U+FEFF.
C11_RoundTripWellFormed ==
    (cStep = "decrypted" /\ Inner(cPackage) = cOriginal /\ SamePassword) =>
        /\ cResult.tag = "value"
        /\ cResult.value = TextDecode(TextEncode(cData))
        /\ (WellFormed(cData) /\ (cData = <<>> \/ Head(cData) # 65279))
               => cResult.value = cData

\* a string with a surrogate pair has come back from the parsed package
C11_Witness ==
    /\ cStep = "decrypted" /\ "text" \notin DOMAIN cPackage
    /\ cPackage = cOriginal /\ SamePassword
    /\ cData = <<55357, 56832>> /\ cResult.tag = "value"

\* C12: with another password than the one used to encrypt, or with a byte of
\* the ciphertext, salt or nonce changed, decrypt fails and returns no plaintext
C12_FailsOnAnyChange ==
    (cStep = "decrypted" /\ (~SamePassword \/ ~SameBytes))
        => cResult.tag = "throw"

\* the two passwords give PBKDF2 the same HMAC key
SameKeyMaterial ==
    HmacKey(TextEncode(cResult.password)) = HmacKey(TextEncode(cPassword))

\* C12 (amended): decrypt returns a value exactly when the package holds the
\* ciphertext, salt and nonce bytes encrypt produced and the password gives
\* the key material of the encryption's password; the value is then the
\* plaintext; in every other case decrypt fails.
C12_OpensOnlySameKeyAndBytes ==
    cStep = "decrypted" =>
        /\ cResult.tag = "value" <=> (SameBytes /\ SameKeyMaterial)
        /\ cResult.tag = "value" => cResult.value = TextDecode(TextEncode(cData))

\* decrypt has failed on a package with one byte changed, under the right
\* password
C12_Witness ==
    /\ cStep = "decrypted" /\ SamePassword
    /\ IsWhole(cPackage) /\ ~SameBytes
    /\ cResult.tag = "throw" /\ cResult.inner = "OperationError"

\* C13: whatever made decrypt fail, the error it raises is the same one
C13_UniformError ==
    (cStep = "decrypted" /\ cResult.tag = "throw") => cResult.error = Uniform

\* decrypt has failed on malformed text and on a wrong key or changed bytes,
\* and raised the one error
C13_Witness ==
    /\ cStep = "decrypted" /\ cResult.tag = "throw" /\ cResult.error = Uniform
    /\ \E a \in cInner : a # cResult.inner

(***************************************************************************)
(* unnamed/part_002: the key-value server                                  *)
(*                                                                         *)
(* A path is a sequence of segments; a tenant id is a sequence of          *)
(* characters, a key the sequence of segments its decoded text has between *)
(* the "/" (a/b arrives as a%2Fb).  A file is named by the directory it    *)
(* is in, relative to DATA_DIR, and its name without the ".json".          *)
(***************************************************************************)
MaxRequests == 3

\* process.env.API_USER and process.env.API_PASS
API_USER == "admin"
API_PASS == "secret"

\* auth(req): undefined without an Authorization header that parses
Credentials ==
    {[given |-> FALSE]} \cup
    {[given |-> TRUE, name |-> API_USER, pass |-> API_PASS],
     [given |-> TRUE, name |-> API_USER, pass |-> "wrong"],
     [given |-> TRUE, name |-> "guest", pass |-> API_PASS]}

\* the X-Tenant-ID headers sent: none, two ids, and one that names a path
TenantHeaders == {<<>>, <<"t", "1">>, <<"t", "2">>, <<".", ".", "/", "t", "2">>}

\* the characters of [a-zA-Z0-9-]
TenantChars == {"t", "1", "2", "-"}

KvKeys == {<<"a">>, <<"b">>, <<"..", "t2", "a">>}

\* the request bodies express.json() hands on: JSON documents
KvBodies == {"v1", "v2"}

\* writeFileSync returns, or it throws with the file opened (and truncated)
\* and not written to its end
WriteOutcomes == {"written", "torn"}

KvRequests ==
    [method : {"GET"}, user : Credentials, tenant : TenantHeaders, key : KvKeys]
    \cup
    [method : {"PUT"}, user : Credentials, tenant : TenantHeaders, key : KvKeys,
     body : KvBodies, write : WriteOutcomes]

\* JSON.stringify(req.body, null, 2) and JSON.parse(data); the text of a
\* file torn by a failed write is not JSON
Stringify(v) == <<"json", v>>
Torn == <<"torn">>
Parses(text) == Len(text) = 2
Parse(text) == text[2]

\* basicAuth: TRUE when it calls next()
BasicAuthPasses(req) ==
    req.user.given /\ req.user.name = API_USER /\ req.user.pass = API_PASS

\* tenantMiddleware: 0 when it calls next(), else the status it answers with
\* (both failures are answered with 400)
TenantMiddleware(tenant) ==
    IF tenant = <<>> THEN 400
    ELSE IF ~(\A i \in DOMAIN tenant : tenant[i] \in TenantChars) THEN 400
    ELSE 0

\* a tenant id read as a path segment
RECURSIVE Concat(_)
Concat(chars) ==
    IF chars = <<>> THEN "" ELSE chars[1] \o Concat(Tail(chars))

\* path.join's normalisation: ".." takes the directory before it away
RECURSIVE Normalize(_)
Normalize(segs) ==
    IF segs = <<>> THEN <<>>
    ELSE LET before == Normalize(SubSeq(segs, 1, Len(segs) - 1))
             seg == segs[Len(segs)]
         IN  IF seg = ".." /\ before # <<>> /\ before[Len(before)] # ".."
             THEN SubSeq(before, 1, Len(before) - 1)
             ELSE Append(before, seg)

SafeKey_Raw(key) == key

\* path.basename(key)
SafeKey(key) == <<key[Len(key)]>>

\* path.join(path.join(DATA_DIR, tenantId), `${safeKey}.json`)
FilePath(tenant, key) ==
    LET safeKey == SafeKey(key)
        joined == Normalize(<<Concat(tenant)>> \o safeKey)
    IN  [dir |-> SubSeq(joined, 1, Len(joined) - 1), name |-> joined[Len(joined)]]

Respond(status, body) == kvRes' = [status |-> status, body |-> body]

\* the two middlewares of /api in the order they are mounted; TRUE when a
\* middleware has answered the request req and the handler is not reached
Refused(req) ==
    IF ~BasicAuthPasses(req) THEN Respond(401, "Authentication required")
    ELSE IF TenantMiddleware(req.tenant) # 0
    THEN Respond(TenantMiddleware(req.tenant),
                 IF req.tenant = <<>> THEN "X-Tenant-ID header required"
                 ELSE "Invalid Tenant ID")
    ELSE FALSE

Reaches(req) == BasicAuthPasses(req) /\ TenantMiddleware(req.tenant) = 0

Handled(req) ==
    /\ kvCount < MaxRequests
    /\ kvCount' = kvCount + 1
    /\ kvReq' = req

\* a request the middlewares answer
RefuseRequest ==
    \E req \in KvRequests :
        /\ Handled(req)
        /\ ~Reaches(req)
        /\ Refused(req)
        /\ kvTouched' = {}
        /\ UNCHANGED <<kvFiles, kvPuts>>

\* app.get('/api/kv/:key')
GetKv ==
    \E req \in KvRequests :
        /\ req.method = "GET"
        /\ Handled(req)
        /\ Reaches(req)
        /\ LET filePath == FilePath(req.tenant, req.key)
           IN  /\ kvTouched' = {filePath}
               /\ IF filePath \in DOMAIN kvFiles
                  THEN IF Parses(kvFiles[filePath])
                       THEN Respond(200, Parse(kvFiles[filePath]))
                       ELSE Respond(500, "Failed to read data")
                  ELSE Respond(404, "Key not found")
        /\ UNCHANGED <<kvFiles, kvPuts>>

\* app.put('/api/kv/:key')
PutKv ==
    \E req \in KvRequests :
        /\ req.method = "PUT"
        /\ Handled(req)
        /\ Reaches(req)
        /\ LET filePath == FilePath(req.tenant, req.key)
               content == IF req.write = "written" THEN Stringify(req.body) ELSE Torn
           IN  /\ kvTouched' = {filePath}
               /\ kvFiles' = [p \in DOMAIN kvFiles \cup {filePath} |->
                                IF p = filePath THEN content ELSE kvFiles[p]]
               /\ IF req.write = "written"
                  THEN Respond(200, "success")
                  ELSE Respond(500, "Failed to write data")
        /\ kvPuts' = Append(kvPuts, req)

ServerInit ==
    /\ kvFiles = <<>> /\ kvPuts = <<>>
    /\ kvReq = [method |-> "none"] /\ kvRes = [status |-> 0]
    /\ kvTouched = {} /\ kvCount = 0
    /\ SettleIdle /\ FetchIdle /\ FormIdle /\ StoreIdle /\ SheetIdle /\ CryptoIdle /\ ScriptIdle /\ PinIdle

ServerNext ==
    \/ (RefuseRequest /\ UNCHANGED notServer)
    \/ (GetKv /\ UNCHANGED notServer)
    \/ (PutKv /\ UNCHANGED notServer)

SpecServer == ServerInit /\ [][ServerNext]_vars

\* the PUTs that reached the handler, of the tenant of req, for the keys that
\* same(_) accepts, oldest first
PutsOf(req, same(_)) ==
    SelectSeq(kvPuts, LAMBDA p : p.tenant = req.tenant /\ same(p.key))

\* what a GET that reached the handler is answered with when mine are the
\* PUTs it reads from: the body of the last one, 500 when that write tore the
\* file, 404 when there is none
AnswersFrom(mine) ==
    IF mine = <<>> THEN kvRes.status = 404
    ELSE IF mine[Len(mine)].write = "written"
    THEN kvRes.status = 200 /\ kvRes.body = mine[Len(mine)].body
    ELSE kvRes.status = 500

\* a request the middlewares stop is answered 401 or 400 and no file is
\* tested, read or written for it
StoppedOutside ==
    /\ [](kvCount > 0 /\ ~Reaches(kvReq) =>
             kvTouched = {} /\ kvRes.status \in {400, 401})
    /\ [][~Reaches(kvReq') => kvFiles' = kvFiles]_vars

\* C24 as stated: GET of key K by tenant T is answered from the last PUT of
\* T to the key K itself, with 404 when T never PUT the key K; requests
\* without valid credentials or a well-formed tenant id touch no file.
C24_TenantScopedByKey ==
    /\ [](kvCount > 0 /\ kvReq.method = "GET" /\ Reaches(kvReq) =>
             AnswersFrom(PutsOf(kvReq, LAMBDA k : k = kvReq.key)))
    /\ StoppedOutside

\* C24, amended: GET of key K by tenant T is answered from the last PUT of
\* T to a key with the same final path segment as K (the name the file is
\* stored under), whichever tenants PUT in between, and with 404 when T never
\* PUT such a key; requests without valid credentials or a well-formed
\* tenant id are answered 401 or 400 and touch no file.
C24_TenantScopedByBasename ==
    /\ [](kvCount > 0 /\ kvReq.method = "GET" /\ Reaches(kvReq) =>
             AnswersFrom(PutsOf(kvReq,
                                LAMBDA k : k[Len(k)] = kvReq.key[Len(kvReq.key)])))
    /\ StoppedOutside

\* tenant t1 reads, by a key that names the directory of t2, what it PUT
\* itself after t2 had PUT the same name
C24_Witness ==
    /\ Len(kvPuts) = 2
    /\ kvPuts[1].tenant = <<"t", "2">> /\ kvPuts[1].key = <<"a">>
    /\ kvPuts[1].write = "written" /\ kvPuts[1].body = "v2"
    /\ kvPuts[2].tenant = <<"t", "1">> /\ kvPuts[2].key = <<"a">>
    /\ kvPuts[2].write = "written" /\ kvPuts[2].body = "v1"
    /\ kvReq.method = "GET" /\ Reaches(kvReq)
    /\ kvReq.tenant = <<"t", "1">> /\ kvReq.key = <<"..", "t2", "a">>
    /\ kvRes.status = 200 /\ kvRes.body = "v1"

(***************************************************************************)
(* gAppScripts/AutomatedBillProcessor.gs: the bill-processing script       *)
(*                                                                         *)
(* A run of processMonthlyBills is one step.  A month cell holds a text or *)
(* a date (the sheet turns "November 2025" into a date); JSON cells hold   *)
(* the text JSON.stringify made.  The lists received and missing are read  *)
(* with includes() and filter() only: received is kept as the set of its   *)
(* elements.  Every bill has a positive amount.                            *)
(***************************************************************************)
MaxRuns == 3

\* bills that arrive in one run of the model, by e-mail or as a row
MaxArrivals == 3

Months == <<"October 2025", "November 2025">>

\* the vendor the e-mails are from, and the one of e-mails no pattern names
MailVendors == {"SP Digital", "Generic Fallback"}

\* the header of BillSplits and the rows of FixedBills the owner has set up
VendorSetups ==
    {[expected |-> <<"SP Digital">>, fixed |-> {}],
     [expected |-> <<"SP Digital", "Rent">>, fixed |-> {"Rent"}],
     [expected |-> <<"SP Digital", "Rent">>, fixed |-> {}]}

\* what getValues() hands back for a month written as text
DateCell(month) == [date |-> month]
TextCell(month) == [text |-> month]

\* formatMonth: texts with a space as they are, dates as "MMMM yyyy"
formatMonth(dateInput) ==
    IF "text" \in DOMAIN dateInput THEN dateInput.text ELSE dateInput.date

\* parseJson(str) || otherwise
parseJson(str, otherwise) ==
    IF Len(str) = 2 /\ str[1] = "json" THEN str[2] ELSE otherwise

\* createBillObject, as the row logTransactions writes for it
createBillObject(vendor, month, kind, key) ==
    [month |-> DateCell(month), vendor |-> vendor, id |-> [kind |-> kind, key |-> key]]

\* getHistoryIndices(sheets.log)
msgIds(log) == {log[i].id : i \in DOMAIN log}

vendorMonths(log) ==
    {<<log[i].vendor, formatMonth(log[i].month)>> : i \in DOMAIN log}
    \cup {log[i].id.key : i \in {j \in DOMAIN log :
                                    log[j].id.kind \in {"FIXED", "MANUAL", "OVERRIDE"}}}

\* fetchEmailBills: the threads whose message is not in the history
fetchEmailBills(processedIds) ==
    LET fresh == SelectSeq(bpThreads,
                           LAMBDA t : [kind |-> "msg", key |-> <<t.vendor, t.month>>]
                                          \notin processedIds)
    IN  [i \in DOMAIN fresh |->
            createBillObject(fresh[i].vendor, fresh[i].month, "msg",
                             <<fresh[i].vendor, fresh[i].month>>)]

\* fetchManualBills: uniqueKey `${vendor}-${monthStr}-MANUAL`
fetchManualBills(processedVendorMonths) ==
    LET fresh == SelectSeq(bpManual,
                           LAMBDA r : <<r.vendor, formatMonth(r.month), "MANUAL">>
                                          \notin processedVendorMonths)
    IN  [i \in DOMAIN fresh |->
            createBillObject(fresh[i].vendor, formatMonth(fresh[i].month), "MANUAL",
                             <<fresh[i].vendor, formatMonth(fresh[i].month), "MANUAL">>)]

\* fetchOverrideBills: uniqueKey `${vendor}-${monthStr}`
fetchOverrideBills(processedVendorMonths) ==
    LET fresh == SelectSeq(bpOverride,
                           LAMBDA r : <<r.vendor, formatMonth(r.month)>>
                                          \notin processedVendorMonths)
    IN  [i \in DOMAIN fresh |->
            createBillObject(fresh[i].vendor, formatMonth(fresh[i].month), "OVERRIDE",
                             <<fresh[i].vendor, formatMonth(fresh[i].month)>>)]

\* monthRowMap.get(month): the first row of the month, 0 for none
RowOf(status, month) ==
    LET rows == {i \in DOMAIN status : formatMonth(status[i].month) = month}
    IN  IF rows = {} THEN 0 ELSE CHOOSE i \in rows : \A j \in rows : i <= j

\* Object.keys(billsByMonth): the months of the bills, in order of appearance
RECURSIVE MonthsOf(_)
MonthsOf(newBills) ==
    IF newBills = <<>> THEN <<>>
    ELSE LET front == MonthsOf(SubSeq(newBills, 1, Len(newBills) - 1))
             m == formatMonth(newBills[Len(newBills)].month)
         IN  IF \E i \in DOMAIN front : front[i] = m THEN front ELSE Append(front, m)

StillMissing(expectedVendors, received) ==
    SelectSeq(expectedVendors, LAMBDA v : v \notin received)

\* updateStatusTracker, the loop over Object.keys(billsByMonth)
RECURSIVE updateStatusTracker(_, _, _, _)
updateStatusTracker(status, months, newBills, expectedVendors) ==
    IF months = <<>> THEN status
    ELSE LET month == Head(months)
             newVendors == {newBills[i].vendor :
                               i \in {j \in DOMAIN newBills :
                                         formatMonth(newBills[j].month) = month}}
             rowIndex == RowOf(status, month)
             next ==
                 IF rowIndex # 0
                 THEN LET received == parseJson(status[rowIndex].received, {})
                                          \cup newVendors
                      IN  [status EXCEPT
                              ![rowIndex].received = Stringify(received),
                              ![rowIndex].missing =
                                  Stringify(StillMissing(expectedVendors, received))]
                 ELSE Append(status,
                             [month |-> DateCell(month), status |-> "Pending",
                              received |-> Stringify(newVendors),
                              missing |-> Stringify(StillMissing(expectedVendors,
                                                                 newVendors))])
         IN  updateStatusTracker(next, Tail(months), newBills, expectedVendors)

\* ingestNewData: the sheets and the label after it, as [log, status, threads]
ingestNewData ==
    LET billsToAdd == fetchEmailBills(msgIds(bpLog))
                          \o fetchManualBills(vendorMonths(bpLog))
                          \o fetchOverrideBills(vendorMonths(bpLog))
    IN  IF billsToAdd = <<>>
        THEN [log |-> bpLog, status |-> bpStatus, threads |-> bpThreads]
        ELSE [log |-> bpLog \o billsToAdd,
              status |-> updateStatusTracker(bpStatus, MonthsOf(billsToAdd),
                                             billsToAdd, bpExpected),
              \* batchUpdateLabels: the threads of the bills leave Bills-Pending
              threads |-> SelectSeq(bpThreads,
                                    LAMBDA t : [kind |-> "msg",
                                                key |-> <<t.vendor, t.month>>]
                                                   \in msgIds(bpLog))]

\* ensureCurrentMonthTracker
ensureCurrentMonthTracker(status, currentMonth, expectedVendors) ==
    IF \E i \in DOMAIN status : formatMonth(status[i].month) = currentMonth
    THEN status
    ELSE Append(status, [month |-> DateCell(currentMonth), status |-> "Pending",
                         received |-> Stringify({}),
                         missing |-> Stringify(expectedVendors)])

\* getBillsForMonth
getBillsForMonth(log, targetMonth) ==
    SelectSeq(log, LAMBDA row : formatMonth(row.month) = targetMonth
                                    /\ row.vendor # "SYSTEM")

\* deduplicateBills: a vendor with an override keeps its overrides only
deduplicateBills(monthBills) ==
    LET overrides == {monthBills[i].vendor :
                         i \in {j \in DOMAIN monthBills : monthBills[j].id.kind = "OVERRIDE"}}
    IN  SelectSeq(monthBills, LAMBDA b : b.vendor \in overrides => b.id.kind = "OVERRIDE")

\* the housemates of BillSplits: each has a positive ratio for every vendor
Housemates == <<"h1", "h2">>

\* calculateAndNotify: the housemates with a positive total, in order
calculateAndNotify(month, monthBills) ==
    IF monthBills = <<>> THEN <<>>
    ELSE [i \in DOMAIN Housemates |-> [month |-> month, name |-> Housemates[i]]]

\* line 174: if (status === 'Sent') continue
AlreadySent_Never(status) == FALSE

AlreadySent(status) == status = "Sent"

\* processPendingMonths, the loop from row i on; st is [status, log, paid,
\* mails, done], seen is processedMonths
RECURSIVE processPendingMonths(_, _, _)
processPendingMonths(st, i, seen) ==
    IF i > Len(st.status) THEN st
    ELSE LET row == st.status[i]
             month == formatMonth(row.month)
         IN  IF month = "" \/ month \in seen
             THEN processPendingMonths(st, i + 1, seen)
             ELSE IF AlreadySent(row.status)
             THEN processPendingMonths(st, i + 1, seen \cup {month})
             ELSE
             LET stored == parseJson(row.missing, bpExpected)
                 \* getBackfillBills
                 backfills == SelectSeq(stored, LAMBDA v : v \in bpFixed)
                 missing == SelectSeq(stored, LAMBDA v : v \notin bpFixed)
                 received == parseJson(row.received, {})
                                 \cup {backfills[k] : k \in DOMAIN backfills}
                 filled ==
                     IF backfills = <<>> THEN st
                     ELSE [st EXCEPT
                              !.log = @ \o [k \in DOMAIN backfills |->
                                               createBillObject(backfills[k], month, "FIXED",
                                                                <<backfills[k], month>>)],
                              !.status[i].received = Stringify(received),
                              !.status[i].missing = Stringify(missing)]
                 cleanBills == deduplicateBills(getBillsForMonth(filled.log, month))
                 paidRows == calculateAndNotify(month, cleanBills)
                 completed ==
                     [filled EXCEPT
                         !.mails = @ \o paidRows,
                         !.paid = @ \o paidRows,
                         !.status[i].status = "Sent",
                         !.log = Append(@, [month |-> DateCell(month), vendor |-> "SYSTEM",
                                            id |-> [kind |-> "SENT", key |-> <<month>>]]),
                         !.done = Append(@,
                             [month |-> month,
                              absent |-> {v \in {bpExpected[k] : k \in DOMAIN bpExpected} :
                                             ~\E k \in DOMAIN filled.log :
                                                  /\ filled.log[k].vendor = v
                                                  /\ formatMonth(filled.log[k].month) = month}])]
             IN  processPendingMonths(IF missing = <<>> THEN completed ELSE filled,
                                      i + 1, seen \cup {month})

\* the hourly trigger: processMonthlyBills
ProcessMonthlyBills ==
    /\ bpRuns < MaxRuns
    /\ bpRuns' = bpRuns + 1
    /\ LET ingested == ingestNewData
           st == processPendingMonths(
                     [status |-> ensureCurrentMonthTracker(ingested.status,
                                                           Months[bpNow], bpExpected),
                      log |-> ingested.log, paid |-> bpPaid, mails |-> bpMails,
                      done |-> bpDone],
                     1, {})
       IN  /\ bpThreads' = ingested.threads
           /\ bpLog' = st.log /\ bpStatus' = st.status
           /\ bpPaid' = st.paid /\ bpMails' = st.mails /\ bpDone' = st.done
    /\ UNCHANGED <<bpExpected, bpFixed, bpNow, bpManual, bpOverride>>

\* the bills that have arrived so far
Arrived ==
    Cardinality({i \in DOMAIN bpLog : bpLog[i].id.kind = "msg"})
        + Len(bpThreads) + Len(bpManual) + Len(bpOverride)

\* a bill arrives by e-mail and is labelled Bills-Pending
MailArrives ==
    \E v \in MailVendors, m \in 1..bpNow :
        /\ Arrived < MaxArrivals
        /\ ~\E i \in DOMAIN bpThreads : bpThreads[i] = [vendor |-> v, month |-> Months[m]]
        /\ [kind |-> "msg", key |-> <<v, Months[m]>>] \notin msgIds(bpLog)
        /\ bpThreads' = Append(bpThreads, [vendor |-> v, month |-> Months[m]])
        /\ UNCHANGED <<bpExpected, bpFixed, bpNow, bpManual, bpOverride, bpLog,
                       bpStatus, bpPaid, bpMails, bpDone, bpRuns>>

\* the owner adds a row to ManualBills
ManualRowAdded ==
    \E m \in 1..bpNow :
        LET row == [month |-> TextCell(Months[m]), vendor |-> "Rent"]
        IN  /\ Arrived < MaxArrivals
            /\ ~\E i \in DOMAIN bpManual : bpManual[i] = row
            /\ bpManual' = Append(bpManual, row)
            /\ UNCHANGED <<bpExpected, bpFixed, bpNow, bpThreads, bpOverride, bpLog,
                           bpStatus, bpPaid, bpMails, bpDone, bpRuns>>

\* the owner adds a row to BillOverride
OverrideRowAdded ==
    \E m \in 1..bpNow :
        LET row == [month |-> TextCell(Months[m]), vendor |-> "SP Digital"]
        IN  /\ Arrived < MaxArrivals
            /\ ~\E i \in DOMAIN bpOverride : bpOverride[i] = row
            /\ bpOverride' = Append(bpOverride, row)
            /\ UNCHANGED <<bpExpected, bpFixed, bpNow, bpThreads, bpManual, bpLog,
                           bpStatus, bpPaid, bpMails, bpDone, bpRuns>>

\* the month ends
MonthPasses ==
    /\ bpNow < Len(Months)
    /\ bpNow' = bpNow + 1
    /\ UNCHANGED <<bpExpected, bpFixed, bpThreads, bpManual, bpOverride, bpLog,
                   bpStatus, bpPaid, bpMails, bpDone, bpRuns>>

ScriptInit ==
    /\ \E setup \in VendorSetups :
          bpExpected = setup.expected /\ bpFixed = setup.fixed
    /\ bpNow = 1 /\ bpThreads = <<>> /\ bpManual = <<>> /\ bpOverride = <<>>
    /\ bpLog = <<>> /\ bpStatus = <<>> /\ bpPaid = <<>> /\ bpMails = <<>>
    /\ bpDone = <<>> /\ bpRuns = 0
    /\ SettleIdle /\ FetchIdle /\ FormIdle /\ StoreIdle /\ SheetIdle /\ CryptoIdle /\ ServerIdle /\ PinIdle

ScriptNext ==
    \/ (ProcessMonthlyBills /\ UNCHANGED notScript)
    \/ (MailArrives /\ UNCHANGED notScript)
    \/ (ManualRowAdded /\ UNCHANGED notScript)
    \/ (OverrideRowAdded /\ UNCHANGED notScript)
    \/ (MonthPasses /\ UNCHANGED notScript)

SpecScript == ScriptInit /\ [][ScriptNext]_vars

\* the expected vendors BillHistories holds no bill of for the month
Lacking(month) ==
    {v \in {bpExpected[k] : k \in DOMAIN bpExpected} :
        ~\E k \in DOMAIN bpLog : /\ bpLog[k].vendor = v
                                 /\ formatMonth(bpLog[k].month) = month}

OfMonth(rows, month) == SelectSeq(rows, LAMBDA r : r.month = month)

\* C25: a month is consolidated only when BillHistories holds a bill of
\* every expected vendor for it, and at most once: a month is 'Sent' exactly
\* when it has been consolidated, no housemate is sent the summary of a month
\* twice, a 'Sent' month stays 'Sent' and gets no further PaidBills row,
\* e-mail or consolidation in any later run, and a month lacking a vendor is
\* 'Pending'.
C25_ConsolidatedOnceWhenComplete ==
    /\ [](\A i \in DOMAIN bpDone : bpDone[i].absent = {})
    /\ [](\A i, j \in DOMAIN bpDone : bpDone[i].month = bpDone[j].month => i = j)
    /\ [](\A i, j \in DOMAIN bpMails : bpMails[i] = bpMails[j] => i = j)
    /\ [](\A i \in DOMAIN bpStatus :
             /\ bpStatus[i].status \in {"Pending", "Sent"}
             /\ bpStatus[i].status = "Sent" <=>
                    \E k \in DOMAIN bpDone : bpDone[k].month = formatMonth(bpStatus[i].month)
             /\ Lacking(formatMonth(bpStatus[i].month)) # {} =>
                    bpStatus[i].status = "Pending")
    /\ [][\A i \in DOMAIN bpStatus :
             bpStatus[i].status = "Sent" =>
                 LET month == formatMonth(bpStatus[i].month)
                 IN  /\ bpStatus'[i].status = "Sent"
                     /\ OfMonth(bpPaid', month) = OfMonth(bpPaid, month)
                     /\ OfMonth(bpMails', month) = OfMonth(bpMails, month)
                     /\ OfMonth(bpDone', month) = OfMonth(bpDone, month)]_vars

\* October was consolidated; a bill for it came in afterwards and was logged
\* by a later run, and November waits for a vendor
C25_Witness ==
    /\ \E i \in DOMAIN bpStatus :
          /\ bpStatus[i].status = "Sent"
          /\ \E k \in DOMAIN bpLog :
                /\ bpLog[k].vendor = "SYSTEM"
                /\ formatMonth(bpLog[k].month) = formatMonth(bpStatus[i].month)
                /\ \E j \in DOMAIN bpLog :
                      /\ j > k /\ bpLog[j].vendor # "SYSTEM"
                      /\ formatMonth(bpLog[j].month) = formatMonth(bpStatus[i].month)
    /\ \E i \in DOMAIN bpStatus :
          /\ bpStatus[i].status = "Pending"
          /\ Lacking(formatMonth(bpStatus[i].month)) # {}
    /\ bpMails # <<>>

(***************************************************************************)
(* unnamed/part_004: LoginScreen, the PIN unlock flow                      *)
(*                                                                         *)
(* The flow logs in through GoogleSheetsService: accessToken,              *)
(* serviceAccountKey and tokenExpiration are the variables of SpecFetch.   *)
(***************************************************************************)
MaxUnlocks == 3

\* the PINs typed, as UTF-16 code units: "1234", "0000", "123"
Pins == {<<49, 50, 51, 52>>, <<48, 48, 48, 48>>, <<49, 50, 51>>}

\* localStorage.getItem('service_account_key') of a device that holds none
NoStoredKey == [none |-> TRUE]

\* the key AppConfig holds, as encryptKey got it
Credentials_ServiceAccount == [client_email |-> "sa", private_key |-> "pk"]

\* deriveKey(pin) of GoogleSheetsService: the JWK of the SHA-256 of the PIN
PinJwk(pin) == [k |-> <<"sha256", TextEncode(pin)>>, alg |-> "A256KW", kty |-> "oct"]

\* encryptKey(key, pin): the JWE, named by the key that wraps it and its text
encryptKey(key, pin) == [wrapped |-> PinJwk(pin), plaintext |-> Stringify(key)]

\* a stored value that is no JWE
NotAJwe == [text |-> "x"]

Unwraps_Any(jwe, secret) == TRUE

\* jose.compactDecrypt(jwe, secret) returns: the JWE parses and the secret
\* unwraps its content key
Unwraps(jwe, secret) == "wrapped" \in DOMAIN jwe /\ jwe.wrapped = secret

\* what the device holds when the page is opened
StoredKeys ==
    {NoStoredKey, NotAJwe}
    \cup {encryptKey(Credentials_ServiceAccount, pin) : pin \in Pins \ {<<49, 50, 51>>}}

Held(key) == "none" \notin DOMAIN key

restOfFetch == <<fPc, fSends, fRefreshes, fRefreshed, fFirst, fHadKey, fLast,
                 fResult, fCalls>>

\* the effect of the first render (lines 26-38)
PinMount ==
    /\ unlockPc = "unmounted"
    /\ unlockPc' = "idle"
    /\ IF Held(storedKey)
       THEN encryptedKey' = storedKey /\ authStep' = "pin_entry"
       ELSE authStep' = "oauth" /\ UNCHANGED encryptedKey
    /\ UNCHANGED <<pinError, storedKey, enteredPin, loginSuccesses, unlocks,
                   accessToken, serviceAccountKey, tokenExpiration, restOfFetch>>

\* handlePinUnlock(pin), to its first await
HandlePinUnlock ==
    \E pin \in Pins :
        /\ authStep = "pin_entry" /\ unlockPc = "idle"
        /\ Held(encryptedKey)
        /\ unlocks < MaxUnlocks
        /\ unlocks' = unlocks + 1
        /\ authStep' = "loading"
        /\ enteredPin' = pin
        /\ unlockPc' = "decrypting"
        /\ UNCHANGED <<pinError, encryptedKey, storedKey, loginSuccesses,
                       accessToken, serviceAccountKey, tokenExpiration, restOfFetch>>

\* catch (e) { setError('Incorrect PIN'); setAuthStep('pin_entry'); }
UnlockCaught ==
    /\ pinError' = "Incorrect PIN"
    /\ authStep' = "pin_entry"
    /\ unlockPc' = "idle"
    /\ UNCHANGED <<encryptedKey, storedKey, enteredPin, loginSuccesses, unlocks>>

\* decryptKey ends; when it returns, loginWithServiceAccount keeps the key
\* and starts the token exchange
DecryptKeyDone ==
    /\ unlockPc = "decrypting"
    /\ IF Unwraps(encryptedKey, PinJwk(enteredPin))
       THEN /\ serviceAccountKey' = TRUE
            /\ unlockPc' = "exchanging"
            /\ UNCHANGED <<authStep, pinError, encryptedKey, storedKey, enteredPin,
                           loginSuccesses, unlocks>>
       ELSE UnlockCaught /\ UNCHANGED serviceAccountKey
    /\ UNCHANGED <<accessToken, tokenExpiration, restOfFetch>>

\* refreshServiceAccountToken ends: with a token, or throwing (the key does
\* not import, the request fails, the answer is not OK)
TokenExchangeDone ==
    /\ unlockPc = "exchanging"
    /\ \E ok \in BOOLEAN :
         IF ok
         THEN /\ Refreshed
              \* onSpreadsheetIdSubmit(sheetId); onLoginSuccess('service-account')
              /\ loginSuccesses' = Append(loginSuccesses, enteredPin)
              /\ unlockPc' = "in"
              /\ UNCHANGED <<authStep, pinError, encryptedKey, storedKey, enteredPin,
                             unlocks>>
         ELSE /\ UnlockCaught
              /\ UNCHANGED <<accessToken, serviceAccountKey, tokenExpiration>>
    /\ UNCHANGED restOfFetch

\* handleReset, confirmed: handleSignOut
HandleReset ==
    /\ authStep = "pin_entry" /\ unlockPc = "idle"
    /\ Logout
    /\ storedKey' = NoStoredKey
    /\ pinError' = Null
    /\ authStep' = "oauth"
    /\ encryptedKey' = NoStoredKey
    /\ UNCHANGED <<enteredPin, unlockPc, loginSuccesses, unlocks, restOfFetch>>

\* the page is loaded again while the login screen shows
PinReload ==
    /\ unlockPc = "idle"
    /\ unlockPc' = "unmounted"
    /\ authStep' = "loading" /\ pinError' = Null /\ encryptedKey' = NoStoredKey
    /\ serviceAccountKey' = FALSE /\ tokenExpiration' = "null"
    /\ UNCHANGED <<storedKey, enteredPin, loginSuccesses, unlocks, accessToken,
                   restOfFetch>>

PinInit ==
    /\ authStep = "loading" /\ pinError = Null /\ encryptedKey = NoStoredKey
    /\ storedKey \in StoredKeys
    /\ enteredPin = <<>> /\ unlockPc = "unmounted"
    /\ loginSuccesses = <<>> /\ unlocks = 0
    /\ SettleIdle /\ FetchIdle /\ FormIdle /\ StoreIdle /\ SheetIdle /\ CryptoIdle /\ ServerIdle /\ ScriptIdle

PinNext ==
    \/ (PinMount /\ UNCHANGED notPin)
    \/ (HandlePinUnlock /\ UNCHANGED notPin)
    \/ (DecryptKeyDone /\ UNCHANGED notPin)
    \/ (TokenExchangeDone /\ UNCHANGED notPin)
    \/ (HandleReset /\ UNCHANGED notPin)
    \/ (PinReload /\ UNCHANGED notPin)

SpecPin == PinInit /\ [][PinNext]_vars

\* the unlock in flight failed: the PIN entry step shows with the error, no
\* login success was signalled and the stored key is where it was
BackAtPinEntry ==
    /\ authStep' = "pin_entry" /\ pinError' = "Incorrect PIN"
    /\ unlockPc' = "idle"
    /\ loginSuccesses' = loginSuccesses
    /\ storedKey' = storedKey /\ Held(storedKey)
    /\ encryptedKey' = encryptedKey

\* C26: onLoginSuccess is called only at the end of an unlock whose PIN
\* opened the stored key and whose token exchange left a token; an unlock
\* that does not end so ends at the PIN entry step with the error, without a
\* login success and with the stored encrypted key left in place; a PIN that
\* does not open the stored key always ends so.
C26_SuccessOnlyAfterUnlock ==
    /\ [][loginSuccesses' # loginSuccesses =>
             /\ unlockPc = "exchanging" /\ unlockPc' = "in"
             /\ "wrapped" \in DOMAIN storedKey
             /\ storedKey.wrapped = PinJwk(enteredPin)
             /\ serviceAccountKey' /\ accessToken' = "token"
             /\ loginSuccesses' = Append(loginSuccesses, enteredPin)]_vars
    /\ [][unlockPc = "exchanging" /\ loginSuccesses' = loginSuccesses =>
             BackAtPinEntry]_vars
    /\ [][unlockPc = "decrypting" =>
             \/ BackAtPinEntry
             \/ /\ "wrapped" \in DOMAIN storedKey
                /\ storedKey.wrapped = PinJwk(enteredPin)
                /\ unlockPc' = "exchanging"
                /\ loginSuccesses' = loginSuccesses /\ storedKey' = storedKey]_vars
    /\ [][(unlockPc = "decrypting" /\ \/ "wrapped" \notin DOMAIN storedKey
                                      \/ storedKey.wrapped # PinJwk(enteredPin)) =>
             BackAtPinEntry]_vars

\* a wrong PIN and a failed token exchange were answered with the error, and
\* the third unlock signalled the login
C26_Witness ==
    /\ unlocks = 3 /\ unlockPc = "in"
    /\ Len(loginSuccesses) = 1
    /\ pinError = "Incorrect PIN"
    /\ Held(storedKey) /\ accessToken = "token"

====
